---- MODULE Spec2Model ----
(***************************************************************************)
(* Hash-table dictionaries of the repository: the open-addressing table    *)
(* (linear probing, lazy deletion) and the table whose buckets are AVL     *)
(* trees, both behind the HashTableBase interface.                         *)
(***************************************************************************)
EXTENDS Integers, Sequences, FiniteSets, TLC

(***************************************************************************)
(* Bounds of the model.                                                    *)
(***************************************************************************)
\* a table is constructed with an initial capacity in 1..MaxInitCap
MaxInitCap == 3
\* an insert that would grow the table beyond MaxTableSize slots is not made
MaxTableSize == 4

\* keys passed to the operations of the open-addressing table: hash_function
\* sends all three to the last index modulo 2 and 4 (so that every probe from
\* their home slot wraps around the end of the table), and to the three
\* different indices modulo 3
OAKeys == {-1, 1, 7}
\* keys passed to the operations of the AVL table: hash_function sends all four
\* to the same bucket modulo 2 and 4, so that one tree holds four nodes
AVLKeys == {-1, 1, 7, 8}
Keys == OAKeys \cup AVLKeys
\* values passed to insert: the tables store and return values and never
\* inspect them, and two values tell an updated value from a stale one
Vals == {1, 2}
InitCaps == 1..MaxInitCap

\* hash_function called alone is given a capacity in 1..MaxHashCap
MaxHashCap == 16
HashCaps == 1..MaxHashCap

\* the least and the greatest int
INT_MIN == -2147483647 - 1
INT_MAX == 2147483647

\* keys given to hash_function called alone: the ends of the range of int, the
\* keys around 0 and around the 16-bit and 31-bit boundaries, and the keys of the
\* demonstration
HashKeys ==
    {INT_MIN, INT_MIN + 1, -65537, -65536, -65535, -32768, -256, -2, -1,
     0, 1, 2, 7, 8, 255, 32767, 65535, 65536, 65537, INT_MAX - 1, INT_MAX,
     10, 22, 31, 4, 15, 28, 17, 88, 59, 99, 100}

(***************************************************************************)
(* HashTableBase::hash_function, on 32-bit unsigned arithmetic.  A 32-bit  *)
(* word is kept as its two 16-bit halves <<hi, lo>>, so that no            *)
(* intermediate result leaves the range of TLC's integers.         *)
(***************************************************************************)
RECURSIVE XorBits(_, _, _)
\* bitwise exclusive or of the n low bits of a and b
XorBits(a, b, n) ==
    IF n = 0 THEN 0
    ELSE ((a + b) % 2) + 2 * XorBits(a \div 2, b \div 2, n - 1)

\* static_cast<unsigned int>(key): the two's-complement bit pattern of key
ToUnsigned(key) ==
    IF key >= 0 THEN <<key \div 65536, key % 65536>>
    ELSE <<65535 - ((-(key + 1)) \div 65536), 65535 - ((-(key + 1)) % 65536)>>

\* (ukey >> 16) ^ ukey
ShiftXor(u) == <<u[1], XorBits(u[2], u[1], 16)>>

\* the multiplier 0x45d9f3b, as its four bytes from the lowest to the highest
HashMultiplier == <<59, 159, 93, 4>>

\* u * 0x45d9f3b modulo 2^32, by bytes
MulConst(u) ==
    LET a == <<u[2] % 256, u[2] \div 256, u[1] % 256, u[1] \div 256>>
        c == HashMultiplier
        p0 == a[1] * c[1]
        p1 == a[1] * c[2] + a[2] * c[1] + (p0 \div 256)
        p2 == a[1] * c[3] + a[2] * c[2] + a[3] * c[1] + (p1 \div 256)
        p3 == a[1] * c[4] + a[2] * c[3] + a[3] * c[2] + a[4] * c[1] + (p2 \div 256)
    IN  <<(p2 % 256) + 256 * (p3 % 256), (p0 % 256) + 256 * (p1 % 256)>>

\* the three mixing lines of hash_function
Mix(key) == ShiftXor(MulConst(ShiftXor(MulConst(ShiftXor(ToUnsigned(key))))))

\* the mixed word of every key of the model, computed once
MixOf == [k \in Keys \cup HashKeys |-> Mix(k)]

\* the remainder of the word read as a signed int, as % gives it for int
ModWordSigned(u, n) ==
    IF u[1] < 32768 THEN (((u[1] % n) * (65536 % n)) + (u[2] % n)) % n
    ELSE LET m == (65535 - u[1]) * 65536 + (65535 - u[2])
         IN  -(((m % n) + 1) % n)

\* static_cast<size_t>(ukey) % table_size
ModWord(u, n) == (((u[1] % n) * (65536 % n)) + (u[2] % n)) % n

hash_function(key, n) == ModWord(MixOf[key], n)

(***************************************************************************)
(* OpenAddressingHashTable                                                 *)
(***************************************************************************)
\* Entry(): key 0, value 0, state EMPTY
EmptyEntry == [key |-> 0, value |-> 0, state |-> "EMPTY"]

\* Entry(k, v): state OCCUPIED
Entry(k, v) == [key |-> k, value |-> v, state |-> "OCCUPIED"]

\* MAX_LOAD_FACTOR = 0.5, as the fraction OA_LOAD_NUM / OA_LOAD_DEN
OA_LOAD_NUM == 1
OA_LOAD_DEN == 2

\* a load test that is met already at the threshold
OALoadReached(S) ==
    S.current_size * OA_LOAD_DEN >= OA_LOAD_NUM * S.table_size

\* a load test that fires only when every slot holds a live key
OALoadFull(S) == S.current_size >= S.table_size

\* static_cast<double>(current_size) / table_size > MAX_LOAD_FACTOR
OALoadExceeded(S) ==
    S.current_size * OA_LOAD_DEN > OA_LOAD_NUM * S.table_size

\* the constructor: table_size slots, all Entry()
OANew(n) ==
    [table |-> [i \in 0..(n - 1) |-> EmptyEntry],
     table_size |-> n,
     current_size |-> 0]

\* a probe that stops at a tombstone as it does at an EMPTY slot
ProbeStopsAtTombstone(S, key, index) ==
    /\ S.table[index].state = "OCCUPIED"
    /\ S.table[index].key # key

\* a loop condition that takes a tombstone with the key sought for a match
ProbeMatchesStaleKey(S, key, index) ==
    /\ S.table[index].state # "EMPTY"
    /\ S.table[index].key # key

\* the loop condition of probe: the slot is not EMPTY and is DELETED or holds
\* another key
ProbeContinues(S, key, index) ==
    /\ S.table[index].state # "EMPTY"
    /\ (S.table[index].state = "DELETED" \/ S.table[index].key # key)

RECURSIVE ProbeLoop(_, _, _, _)
\* the while loop of probe, entered with the given index
ProbeLoop(S, key, index, original_index) ==
    IF ProbeContinues(S, key, index)
    THEN LET next == (index + 1) % S.table_size
         IN  IF next = original_index THEN next
             ELSE ProbeLoop(S, key, next, original_index)
    ELSE index

probe(S, key) ==
    LET index == hash_function(key, S.table_size)
    IN  ProbeLoop(S, key, index, index)

\* a test of the key alone, whatever the state of the slot
SlotHoldsAnyState(S, index, key) == S.table[index].key = key

\* the test insert, remove and find make on the probed slot
SlotHolds(S, index, key) ==
    S.table[index].state = "OCCUPIED" /\ S.table[index].key = key

\* a remove that clears the slot at once
RemovedStateEager == "EMPTY"

\* what remove writes into the state of the slot it found
RemovedState == "DELETED"

\* a resize that carries every used slot over, tombstones included
ReinsertedWithTombstones(entry) == entry.state # "EMPTY"

\* the entries of old_table that resize inserts again
Reinserted(entry) == entry.state = "OCCUPIED"

RECURSIVE OAinsert(_, _, _)
RECURSIVE OAReinsert(_, _, _)

\* the loop of resize over old_table, from slot i on
OAReinsert(S, old_table, i) ==
    IF i \notin DOMAIN old_table THEN [S |-> S, resizes |-> 0]
    ELSE IF Reinserted(old_table[i])
         THEN LET r == OAinsert(S, old_table[i].key, old_table[i].value)
                  rest == OAReinsert(r.S, old_table, i + 1)
              IN  [S |-> rest.S, resizes |-> r.resizes + rest.resizes]
         ELSE OAReinsert(S, old_table, i + 1)

\* a resize that copies the old slots to their old indices
OAresizeCopies(S) ==
    [S |-> [table |-> [i \in 0..(S.table_size * 2 - 1) |->
                          IF i < S.table_size THEN S.table[i] ELSE EmptyEntry],
            table_size |-> S.table_size * 2,
            current_size |-> S.current_size],
     resizes |-> 1]

\* a resize that leaves current_size as it was before the old entries are
\* inserted again
OAresizeKeepsCount(S) ==
    LET fresh == [OANew(S.table_size * 2) EXCEPT !.current_size = S.current_size]
        r == OAReinsert(fresh, S.table, 0)
    IN  [S |-> r.S, resizes |-> 1 + r.resizes]

\* resize: a fresh table of twice the size, every OCCUPIED entry inserted again
OAresize(S) ==
    LET fresh == OANew(S.table_size * 2)
        r == OAReinsert(fresh, S.table, 0)
    IN  [S |-> r.S, resizes |-> 1 + r.resizes]

\* an insert that turns the probed slot into a tombstone when it reports failure
OAinsertTombstonesOnFailure(S, key, value) ==
    LET g == IF OALoadExceeded(S) THEN OAresize(S) ELSE [S |-> S, resizes |-> 0]
        T == g.S
        index == probe(T, key)
    IN  IF SlotHolds(T, index, key)
        THEN [S |-> [T EXCEPT !.table[index].value = value],
              ret |-> TRUE, resizes |-> g.resizes]
        ELSE IF T.table[index].state # "OCCUPIED"
        THEN [S |-> [T EXCEPT !.table[index] = Entry(key, value),
                              !.current_size = @ + 1],
              ret |-> TRUE, resizes |-> g.resizes]
        ELSE [S |-> [T EXCEPT !.table[index].state = "DELETED",
                              !.current_size = @ - 1],
              ret |-> FALSE, resizes |-> g.resizes]

\* an insert that writes the value into the probed slot before it reports failure
OAinsertWritesOnFailure(S, key, value) ==
    LET g == IF OALoadExceeded(S) THEN OAresize(S) ELSE [S |-> S, resizes |-> 0]
        T == g.S
        index == probe(T, key)
    IN  IF SlotHolds(T, index, key)
        THEN [S |-> [T EXCEPT !.table[index].value = value],
              ret |-> TRUE, resizes |-> g.resizes]
        ELSE IF T.table[index].state # "OCCUPIED"
        THEN [S |-> [T EXCEPT !.table[index] = Entry(key, value),
                              !.current_size = @ + 1],
              ret |-> TRUE, resizes |-> g.resizes]
        ELSE [S |-> [T EXCEPT !.table[index].value = value],
              ret |-> FALSE, resizes |-> g.resizes]

\* insert; the result is the new object, the returned flag and the number of
\* resize calls made on the way
OAinsert(S, key, value) ==
    LET g == IF OALoadExceeded(S) THEN OAresize(S) ELSE [S |-> S, resizes |-> 0]
        T == g.S
        index == probe(T, key)
    IN  IF SlotHolds(T, index, key)
        THEN [S |-> [T EXCEPT !.table[index].value = value],
              ret |-> TRUE, resizes |-> g.resizes]
        ELSE IF T.table[index].state # "OCCUPIED"
        THEN [S |-> [T EXCEPT !.table[index] = Entry(key, value),
                              !.current_size = @ + 1],
              ret |-> TRUE, resizes |-> g.resizes]
        ELSE [S |-> T, ret |-> FALSE, resizes |-> g.resizes]

\* a remove that forgets the counter
OAremoveKeepsCount(S, key) ==
    LET index == probe(S, key)
    IN  IF SlotHolds(S, index, key)
        THEN [S |-> [S EXCEPT !.table[index].state = RemovedState], ret |-> TRUE]
        ELSE [S |-> S, ret |-> FALSE]

OAremove(S, key) ==
    LET index == probe(S, key)
    IN  IF SlotHolds(S, index, key)
        THEN [S |-> [S EXCEPT !.table[index].state = RemovedState,
                              !.current_size = @ - 1],
              ret |-> TRUE]
        ELSE [S |-> S, ret |-> FALSE]

\* a find that zeroes the caller's value slot when the key is not found
OAfindClearsOut(S, key, out) ==
    LET index == probe(S, key)
    IN  IF SlotHolds(S, index, key)
        THEN [ret |-> TRUE, value |-> S.table[index].value]
        ELSE [ret |-> FALSE, value |-> 0]

\* find(key, value): the flag and the contents of the caller's value slot,
\* which holds out when find is called
OAfind(S, key, out) ==
    LET index == probe(S, key)
    IN  IF SlotHolds(S, index, key)
        THEN [ret |-> TRUE, value |-> S.table[index].value]
        ELSE [ret |-> FALSE, value |-> out]

OAsize(S) == S.current_size

\* a clear that gives the table back its slots but one
OAclearShrinks(S) == [table |-> [i \in 0..0 |-> EmptyEntry], table_size |-> 1, current_size |-> 0]

\* a clear that empties the OCCUPIED slots and leaves the tombstones
OAclearLeavesTombstones(S) ==
    [S EXCEPT !.table = [i \in DOMAIN S.table |->
                            IF S.table[i].state = "OCCUPIED"
                            THEN [S.table[i] EXCEPT !.state = "EMPTY"]
                            ELSE S.table[i]],
              !.current_size = 0]

\* clear: every slot's state becomes EMPTY, its key and value stay
OAclear(S) ==
    [S EXCEPT !.table = [i \in DOMAIN S.table |-> [S.table[i] EXCEPT !.state = "EMPTY"]],
              !.current_size = 0]

(***************************************************************************)
(* AVLHashTable.  The nodes live in a heap: a function from the addresses  *)
(* 1..NumNodes to node contents; nullptr is the address 0.  The object is  *)
(* the record of table, table_size and current_size together with the heap *)
(* its nodes are allocated in.                                             *)
(***************************************************************************)
NULL == 0

\* enough addresses for the old and the new trees of a resize
NumNodes == 2 * Cardinality(Keys)
Addrs == 1..NumNodes

\* the contents of an address that holds no node
FreeCell == [key |-> 0, value |-> 0, height |-> 0, left |-> NULL, right |-> NULL,
             used |-> FALSE]

\* AVLNode(k, v): height 1, no children
AVLNode(k, v) == [key |-> k, value |-> v, height |-> 1, left |-> NULL,
                  right |-> NULL, used |-> TRUE]

\* operator new: an address that holds no node (the lowest one)
NewAddr(h) == CHOOSE a \in Addrs : ~h[a].used /\ \A b \in Addrs : ~h[b].used => a <= b

\* operator delete
Delete(h, a) == [h EXCEPT ![a] = FreeCell]

\* MAX_LOAD_FACTOR = 1.0, as the fraction AVL_LOAD_NUM / AVL_LOAD_DEN
AVL_LOAD_NUM == 1
AVL_LOAD_DEN == 1

AVLLoadExceeded(S) ==
    S.current_size * AVL_LOAD_DEN > AVL_LOAD_NUM * S.table_size

AVLNew(n) ==
    [table |-> [i \in 0..(n - 1) |-> NULL],
     table_size |-> n,
     current_size |-> 0,
     heap |-> [a \in Addrs |-> FreeCell]]

Max(a, b) == IF a >= b THEN a ELSE b

get_height(h, node) == IF node # NULL THEN h[node].height ELSE 0

get_balance(h, node) ==
    IF node # NULL THEN get_height(h, h[node].left) - get_height(h, h[node].right)
    ELSE 0

\* an update_height that leaves the stored height as it is
update_heightStale(h, node) == h

\* the heap after update_height(node)
update_height(h, node) ==
    IF node # NULL
    THEN [h EXCEPT ![node].height =
              1 + Max(get_height(h, h[node].left), get_height(h, h[node].right))]
    ELSE h

\* a rotate_right that updates the height of the new root before the height
\* of the node that moved below it
rotate_rightUpdatesRootFirst(h, y) ==
    LET x == h[y].left
        T2 == h[x].right
        h1 == [h EXCEPT ![x].right = y, ![y].left = T2]
    IN  [h |-> update_height(update_height(h1, x), y), root |-> x]

\* rotations: the heap afterwards and the returned root
rotate_right(h, y) ==
    LET x == h[y].left
        T2 == h[x].right
        h1 == [h EXCEPT ![x].right = y, ![y].left = T2]
    IN  [h |-> update_height(update_height(h1, y), x), root |-> x]

rotate_left(h, x) ==
    LET y == h[x].right
        T2 == h[y].left
        h1 == [h EXCEPT ![y].left = x, ![x].right = T2]
    IN  [h |-> update_height(update_height(h1, x), y), root |-> y]

\* the end of insert_avl: update_height(node) and the four insertion cases
InsertRebalance(h0, node, key) ==
    LET h == update_height(h0, node)
        balance == get_balance(h, node)
    IN  IF balance > 1 /\ key < h[h[node].left].key
        THEN rotate_right(h, node)
        ELSE IF balance < -1 /\ key > h[h[node].right].key
        THEN rotate_left(h, node)
        ELSE IF balance > 1 /\ key > h[h[node].left].key
        THEN LET r == rotate_left(h, h[node].left)
             IN  rotate_right([r.h EXCEPT ![node].left = r.root], node)
        ELSE IF balance < -1 /\ key < h[h[node].right].key
        THEN LET r == rotate_right(h, h[node].right)
             IN  rotate_left([r.h EXCEPT ![node].right = r.root], node)
        ELSE [h |-> h, root |-> node]

RECURSIVE insert_avl(_, _, _, _)
\* insert_avl: the heap afterwards, the returned root and the flag inserted
insert_avl(h, node, key, value) ==
    IF node = NULL
    THEN LET a == NewAddr(h)
         IN  [h |-> [h EXCEPT ![a] = AVLNode(key, value)], root |-> a, inserted |-> TRUE]
    ELSE IF key < h[node].key
    THEN LET r == insert_avl(h, h[node].left, key, value)
             b == InsertRebalance([r.h EXCEPT ![node].left = r.root], node, key)
         IN  [h |-> b.h, root |-> b.root, inserted |-> r.inserted]
    ELSE IF key > h[node].key
    THEN LET r == insert_avl(h, h[node].right, key, value)
             b == InsertRebalance([r.h EXCEPT ![node].right = r.root], node, key)
         IN  [h |-> b.h, root |-> b.root, inserted |-> r.inserted]
    ELSE [h |-> [h EXCEPT ![node].value = value], root |-> node, inserted |-> FALSE]

RECURSIVE find_max(_, _)
\* the node with the largest key instead of the smallest
find_max(h, node) == IF h[node].right # NULL THEN find_max(h, h[node].right) ELSE node

\* a find_min that takes the root of the subtree for its leftmost node
find_minStopsAtOnce(h, node) == node

RECURSIVE find_min(_, _)
find_min(h, node) == IF h[node].left # NULL THEN find_min(h, h[node].left) ELSE node

\* a remove_avl that updates the height and never rotates
RemoveNoRebalance(h0, node) ==
    IF node = NULL THEN [h |-> h0, root |-> NULL]
    ELSE [h |-> update_height(h0, node), root |-> node]

\* the end of remove_avl: update_height(node) and the four deletion cases
RemoveRebalance(h0, node) ==
    IF node = NULL THEN [h |-> h0, root |-> NULL]
    ELSE
    LET h == update_height(h0, node)
        balance == get_balance(h, node)
    IN  IF balance > 1 /\ get_balance(h, h[node].left) >= 0
        THEN rotate_right(h, node)
        ELSE IF balance > 1 /\ get_balance(h, h[node].left) < 0
        THEN LET r == rotate_left(h, h[node].left)
             IN  rotate_right([r.h EXCEPT ![node].left = r.root], node)
        ELSE IF balance < -1 /\ get_balance(h, h[node].right) <= 0
        THEN rotate_left(h, node)
        ELSE IF balance < -1 /\ get_balance(h, h[node].right) > 0
        THEN LET r == rotate_right(h, h[node].right)
             IN  rotate_left([r.h EXCEPT ![node].right = r.root], node)
        ELSE [h |-> h, root |-> node]

RECURSIVE remove_avl(_, _, _)
\* remove_avl: the heap afterwards, the returned root and the flag removed
remove_avl(h, node, key) ==
    IF node = NULL THEN [h |-> h, root |-> NULL, removed |-> FALSE]
    ELSE IF key < h[node].key
    THEN LET r == remove_avl(h, h[node].left, key)
             b == RemoveRebalance([r.h EXCEPT ![node].left = r.root], node)
         IN  [h |-> b.h, root |-> b.root, removed |-> r.removed]
    ELSE IF key > h[node].key
    THEN LET r == remove_avl(h, h[node].right, key)
             b == RemoveRebalance([r.h EXCEPT ![node].right = r.root], node)
         IN  [h |-> b.h, root |-> b.root, removed |-> r.removed]
    ELSE IF h[node].left = NULL \/ h[node].right = NULL
    THEN LET temp == IF h[node].left # NULL THEN h[node].left ELSE h[node].right
         IN  IF temp = NULL
             THEN \* a leaf: node = nullptr, delete the node
                  [h |-> Delete(h, node), root |-> NULL, removed |-> TRUE]
             ELSE \* *node = *temp; delete temp
                  LET b == RemoveRebalance(Delete([h EXCEPT ![node] = h[temp]], temp), node)
                  IN  [h |-> b.h, root |-> b.root, removed |-> TRUE]
    ELSE LET temp == find_min(h, h[node].right)
             h1 == [h EXCEPT ![node].key = h[temp].key, ![node].value = h[temp].value]
             r == remove_avl(h1, h1[node].right, h1[temp].key)
             b == RemoveRebalance([r.h EXCEPT ![node].right = r.root], node)
         IN  [h |-> b.h, root |-> b.root, removed |-> TRUE]

RECURSIVE find_avl(_, _, _, _)
\* find_avl: the flag and the contents of the caller's value slot
find_avl(h, node, key, out) ==
    IF node = NULL THEN [ret |-> FALSE, value |-> out]
    ELSE IF key = h[node].key THEN [ret |-> TRUE, value |-> h[node].value]
    ELSE IF key < h[node].key THEN find_avl(h, h[node].left, key, out)
    ELSE find_avl(h, h[node].right, key, out)

\* a clear_avl that deletes no node
clear_avlKeeps(h, node) == h

RECURSIVE clear_avl(_, _)
\* clear_avl: the heap after the nodes of the tree are deleted
clear_avl(h, node) ==
    IF node # NULL
    THEN Delete(clear_avl(clear_avl(h, h[node].left), h[node].right), node)
    ELSE h

RECURSIVE AVLinsert(_, _, _)
RECURSIVE collect_and_reinsert(_, _)

\* collect_and_reinsert: insert the node's entry, then its left and its right
\* subtree
collect_and_reinsert(S, node) ==
    IF node # NULL
    THEN LET r == AVLinsert(S, S.heap[node].key, S.heap[node].value)
             l == collect_and_reinsert(r.S, r.S.heap[node].left)
             g == collect_and_reinsert(l.S, l.S.heap[node].right)
         IN  [S |-> g.S, resizes |-> r.resizes + l.resizes + g.resizes]
    ELSE [S |-> S, resizes |-> 0]

RECURSIVE AVLReinsert(_, _, _)
\* the loop of resize over old_table, from bucket i on
AVLReinsert(S, old_table, i) ==
    IF i \notin DOMAIN old_table THEN [S |-> S, resizes |-> 0]
    ELSE IF old_table[i] # NULL
         THEN LET r == collect_and_reinsert(S, old_table[i])
                  c == [r.S EXCEPT !.heap = clear_avl(r.S.heap, old_table[i])]
                  rest == AVLReinsert(c, old_table, i + 1)
              IN  [S |-> rest.S, resizes |-> r.resizes + rest.resizes]
         ELSE AVLReinsert(S, old_table, i + 1)

\* a resize that doubles the vector of roots and leaves the trees where they
\* are
AVLresizeKeepsBuckets(S) ==
    [S |-> [S EXCEPT !.table = [i \in 0..(S.table_size * 2 - 1) |->
                                   IF i < S.table_size THEN S.table[i] ELSE NULL],
                     !.table_size = S.table_size * 2],
     resizes |-> 1]

AVLresize(S) ==
    LET fresh == [table |-> [i \in 0..(S.table_size * 2 - 1) |-> NULL],
                  table_size |-> S.table_size * 2,
                  current_size |-> 0,
                  heap |-> S.heap]
        r == AVLReinsert(fresh, S.table, 0)
    IN  [S |-> r.S, resizes |-> 1 + r.resizes]

\* an insert that returns whether it made a new node
AVLinsertReturnsInserted(S, key, value) ==
    LET g == IF AVLLoadExceeded(S) THEN AVLresize(S) ELSE [S |-> S, resizes |-> 0]
        T == g.S
        index == hash_function(key, T.table_size)
        r == insert_avl(T.heap, T.table[index], key, value)
    IN  [S |-> [T EXCEPT !.heap = r.h,
                         !.table[index] = r.root,
                         !.current_size = IF r.inserted THEN @ + 1 ELSE @],
         ret |-> r.inserted, resizes |-> g.resizes]

\* an insert that counts an overwritten key as a new one
AVLinsertCountsAlways(S, key, value) ==
    LET g == IF AVLLoadExceeded(S) THEN AVLresize(S) ELSE [S |-> S, resizes |-> 0]
        T == g.S
        index == hash_function(key, T.table_size)
        r == insert_avl(T.heap, T.table[index], key, value)
    IN  [S |-> [T EXCEPT !.heap = r.h,
                         !.table[index] = r.root,
                         !.current_size = @ + 1],
         ret |-> TRUE, resizes |-> g.resizes]

AVLinsert(S, key, value) ==
    LET g == IF AVLLoadExceeded(S) THEN AVLresize(S) ELSE [S |-> S, resizes |-> 0]
        T == g.S
        index == hash_function(key, T.table_size)
        r == insert_avl(T.heap, T.table[index], key, value)
    IN  [S |-> [T EXCEPT !.heap = r.h,
                         !.table[index] = r.root,
                         !.current_size = IF r.inserted THEN @ + 1 ELSE @],
         ret |-> TRUE, resizes |-> g.resizes]

\* a remove that counts down whether or not a node was removed
AVLremoveAlwaysCounts(S, key) ==
    LET index == hash_function(key, S.table_size)
        r == remove_avl(S.heap, S.table[index], key)
    IN  [S |-> [S EXCEPT !.heap = r.h,
                         !.table[index] = r.root,
                         !.current_size = @ - 1],
         ret |-> r.removed]

AVLremove(S, key) ==
    LET index == hash_function(key, S.table_size)
        r == remove_avl(S.heap, S.table[index], key)
    IN  [S |-> [S EXCEPT !.heap = r.h,
                         !.table[index] = r.root,
                         !.current_size = IF r.removed THEN @ - 1 ELSE @],
         ret |-> r.removed]

AVLfind(S, key, out) ==
    find_avl(S.heap, S.table[hash_function(key, S.table_size)], key, out)

AVLsize(S) == S.current_size

RECURSIVE AVLClearFrom(_, _, _)
\* the loop of clear over the buckets, from bucket i on
AVLClearFrom(h, table, i) ==
    IF i \notin DOMAIN table THEN h
    ELSE AVLClearFrom(clear_avl(h, table[i]), table, i + 1)

AVLclear(S) ==
    [S EXCEPT !.heap = AVLClearFrom(S.heap, S.table, 0),
              !.table = [i \in DOMAIN S.table |-> NULL],
              !.current_size = 0]

(***************************************************************************)
(* The state: one table behind the HashTableBase interface, either an      *)
(* OpenAddressingHashTable (variant "OA", the object oa) or an             *)
(* AVLHashTable (variant "AVL", the object avl).  Every call runs to        *)
(* completion in one step.                                                 *)
(***************************************************************************)
VARIABLES
    variant,      \* the class of the constructed table
    oa,           \* the OpenAddressingHashTable object
    avl,          \* the AVLHashTable object, with the heap of its nodes
    live,         \* history: for each key, the value of its last successful
                  \* insert not followed by remove of the key or by clear; 0 if none
    insertsOnly,  \* history: no remove and no clear has been called so far
    flight,       \* the frame of a resize() that has not returned yet, when calls
                  \* are not run to completion one after the other
    raced,        \* history: a call has run while a resize() had not returned
    hashed        \* a call of hash_function alone: its arguments and its result

vars == <<variant, oa, avl, live, insertsOnly, flight, raced, hashed>>

\* no resize() is under way
NoFlight == [pc |-> "idle", old_table |-> <<>>, i |-> 0, key |-> 0, value |-> 0]

\* hash_function has not been called alone
NoHash == [key |-> 0, capacity |-> 1, called |-> FALSE, index |-> 0]

\* the variables that the calls run to completion leave alone
others == <<flight, raced, hashed>>

Init ==
    /\ variant \in {"OA", "AVL"}
    /\ \E n \in InitCaps :
          /\ oa = OANew(n)
          /\ avl = AVLNew(n)
    /\ live = [k \in Keys |-> 0]
    /\ insertsOnly = TRUE
    /\ flight = NoFlight
    /\ raced = FALSE
    /\ hashed = NoHash

\* the history after insert(key, v) returned ret
LiveAfterInsert(key, v, ret) ==
    IF ret THEN [live EXCEPT ![key] = v] ELSE live

OAInsert(key, v) ==
    /\ variant = "OA"
    /\ OALoadExceeded(oa) => oa.table_size * 2 <= MaxTableSize
    /\ LET r == OAinsert(oa, key, v)
       IN  /\ oa' = r.S
           /\ live' = LiveAfterInsert(key, v, r.ret)
    /\ UNCHANGED <<variant, avl, insertsOnly>>
    /\ UNCHANGED others

OARemove(key) ==
    /\ variant = "OA"
    /\ oa' = OAremove(oa, key).S
    /\ live' = [live EXCEPT ![key] = 0]
    /\ insertsOnly' = FALSE
    /\ UNCHANGED <<variant, avl>>
    /\ UNCHANGED others

\* find changes no field of the table; its results are OAfind(oa, key, out)
OAFind(key) ==
    /\ variant = "OA"
    /\ UNCHANGED <<variant, oa, avl, live, insertsOnly>>
    /\ UNCHANGED others

OAClear ==
    /\ variant = "OA"
    /\ oa' = OAclear(oa)
    /\ live' = [k \in Keys |-> 0]
    /\ insertsOnly' = FALSE
    /\ UNCHANGED <<variant, avl>>
    /\ UNCHANGED others

AVLInsert(key, v) ==
    /\ variant = "AVL"
    /\ AVLLoadExceeded(avl) => avl.table_size * 2 <= MaxTableSize
    /\ LET r == AVLinsert(avl, key, v)
       IN  /\ avl' = r.S
           /\ live' = LiveAfterInsert(key, v, r.ret)
    /\ UNCHANGED <<variant, oa, insertsOnly>>
    /\ UNCHANGED others

AVLRemove(key) ==
    /\ variant = "AVL"
    /\ avl' = AVLremove(avl, key).S
    /\ live' = [live EXCEPT ![key] = 0]
    /\ insertsOnly' = FALSE
    /\ UNCHANGED <<variant, oa>>
    /\ UNCHANGED others

\* find changes no field of the table; its results are AVLfind(avl, key, out)
AVLFind(key) ==
    /\ variant = "AVL"
    /\ UNCHANGED <<variant, oa, avl, live, insertsOnly>>
    /\ UNCHANGED others

AVLClear ==
    /\ variant = "AVL"
    /\ avl' = AVLclear(avl)
    /\ live' = [k \in Keys |-> 0]
    /\ insertsOnly' = FALSE
    /\ UNCHANGED <<variant, oa>>
    /\ UNCHANGED others

Next ==
    \/ \E k \in OAKeys, v \in Vals : OAInsert(k, v)
    \/ \E k \in OAKeys : OARemove(k)
    \/ \E k \in OAKeys : OAFind(k)
    \/ OAClear
    \/ \E k \in AVLKeys, v \in Vals : AVLInsert(k, v)
    \/ \E k \in AVLKeys : AVLRemove(k)
    \/ \E k \in AVLKeys : AVLFind(k)
    \/ AVLClear

Spec == Init /\ [][Next]_vars

(***************************************************************************)
(* The HashTableBase interface: a call goes to the method of the class of  *)
(* the constructed table.                                                  *)
(***************************************************************************)
Table == IF variant = "OA" THEN oa ELSE avl

CallKeys == IF variant = "OA" THEN OAKeys ELSE AVLKeys

insert(S, key, v) ==
    IF variant = "OA" THEN OAinsert(S, key, v) ELSE AVLinsert(S, key, v)

remove(S, key) ==
    IF variant = "OA" THEN OAremove(S, key) ELSE AVLremove(S, key)

find(S, key, out) ==
    IF variant = "OA" THEN OAfind(S, key, out) ELSE AVLfind(S, key, out)

size(S) == IF variant = "OA" THEN OAsize(S) ELSE AVLsize(S)

(***************************************************************************)
(* What a table stores, read off its slots and its trees.                  *)
(***************************************************************************)
\* the indices of the slots in the given state
SlotsIn(S, st) == {i \in DOMAIN S.table : S.table[i].state = st}

RECURSIVE TreeAddrs(_, _)
\* the addresses of the nodes of the tree at node
TreeAddrs(h, node) ==
    IF node = NULL THEN {}
    ELSE {node} \cup TreeAddrs(h, h[node].left) \cup TreeAddrs(h, h[node].right)

RECURSIVE TreeCount(_, _)
\* the number of nodes of the tree at node
TreeCount(h, node) ==
    IF node = NULL THEN 0
    ELSE 1 + TreeCount(h, h[node].left) + TreeCount(h, h[node].right)

RECURSIVE SumCounts(_, _)
\* the number of nodes of the trees of buckets i, i + 1, ...
SumCounts(S, i) ==
    IF i \notin DOMAIN S.table THEN 0
    ELSE TreeCount(S.heap, S.table[i]) + SumCounts(S, i + 1)

\* the addresses of the nodes of all buckets
AllAddrs(S) == UNION {TreeAddrs(S.heap, S.table[i]) : i \in DOMAIN S.table}

\* the (key, value) pairs stored
Entries(S) ==
    IF variant = "OA"
    THEN {<<S.table[i].key, S.table[i].value>> : i \in SlotsIn(S, "OCCUPIED")}
    ELSE {<<S.heap[a].key, S.heap[a].value>> : a \in AllAddrs(S)}

\* the live keys
StoredKeys(S) == {e[1] : e \in Entries(S)}

\* the number of live keys stored
StoredCount(S) ==
    IF variant = "OA" THEN Cardinality(SlotsIn(S, "OCCUPIED")) ELSE SumCounts(S, 0)

\* the content of the out variable a caller passes to find
NoValue == 0

\* find(key): the flag and the value found
Lookup(S, key) == find(S, key, NoValue)

(***************************************************************************)
(* C1  Round trip: a key whose last successful insert(K, v) was followed   *)
(* neither by remove(K) nor by clear() is found, with the value v.         *)
(***************************************************************************)
C1_RoundTrip ==
    \A k \in Keys :
        live[k] # 0 =>
            /\ Lookup(Table, k).ret
            /\ Lookup(Table, k).value = live[k]

\* an open-addressing table in which a key inserted and not removed lies
\* beyond the tombstone of a removed key, in a table that has grown
C1_Witness ==
    /\ variant = "OA"
    /\ oa.table_size = 4
    /\ \E k \in OAKeys :
          /\ live[k] = 2
          /\ oa.table[hash_function(k, oa.table_size)].state = "DELETED"
          /\ Lookup(oa, k).ret

(***************************************************************************)
(* C2  Between calls current_size is the number of live keys stored: the   *)
(* OCCUPIED slots of the open-addressing table, the tree nodes of all      *)
(* buckets of the AVL table.                                               *)
(***************************************************************************)
C2_SizeIsStoredCount == size(Table) = StoredCount(Table)

\* a table with two live keys after a removal
C2_Witness ==
    /\ ~insertsOnly
    /\ size(Table) = 2
    /\ variant = "OA" => SlotsIn(oa, "DELETED") # {}
    /\ variant = "AVL" => \E k \in AVLKeys : live[k] = 0 /\ avl.table_size = 4

(***************************************************************************)
(* C3  From an empty table and with inserts only: every insert succeeds    *)
(* and size() is the number of distinct keys inserted; an insert of a key  *)
(* already present leaves size() as it is, replaces the value of that key  *)
(* and changes the value of no other key, also when it makes the table     *)
(* grow.                                                                   *)
(***************************************************************************)
C3_InsertsOnly ==
    insertsOnly =>
        /\ size(Table) = Cardinality({k \in Keys : live[k] # 0})
        /\ \A k \in CallKeys, v \in Vals :
              LET r == insert(Table, k, v)
              IN  /\ r.ret
                  /\ Lookup(r.S, k) = [ret |-> TRUE, value |-> v]
                  /\ live[k] = 0 => size(r.S) = size(Table) + 1
                  /\ live[k] # 0 =>
                        /\ size(r.S) = size(Table)
                        /\ \A j \in Keys \ {k} : Lookup(r.S, j) = Lookup(Table, j)

\* three distinct keys inserted into a table that has grown, one of them twice
\* with different values, and one more insert of a present key will grow it
C3_Witness ==
    /\ insertsOnly
    /\ size(Table) = 3
    /\ \E k \in Keys : live[k] = 1
    /\ \E k \in Keys : live[k] = 2
    /\ Table.table_size = 4
    /\ variant = "OA"
    /\ OALoadExceeded(oa)

(***************************************************************************)
(* C4  remove(K) returns true exactly when K is a live key; then size()    *)
(* is one less, find(K) fails afterwards (in open addressing the slot      *)
(* still holds K, in state DELETED), and a second remove(K) returns false. *)
(***************************************************************************)
C4_RemoveContract ==
    \A k \in CallKeys :
        LET r == remove(Table, k)
        IN  /\ r.ret <=> k \in StoredKeys(Table)
            /\ r.ret =>
                  /\ size(r.S) = size(Table) - 1
                  /\ ~Lookup(r.S, k).ret
                  /\ ~remove(r.S, k).ret
                  /\ k \notin StoredKeys(r.S)
                  /\ variant = "OA" =>
                        \E i \in DOMAIN oa.table :
                            /\ oa.table[i].state = "OCCUPIED"
                            /\ r.S.table[i] = [oa.table[i] EXCEPT !.state = "DELETED"]
                            /\ r.S.table[i].key = k

\* a key was removed and its tombstone left behind, another key is live, and
\* a slot cleared earlier still holds a stale key
C4_Witness ==
    /\ variant = "OA"
    /\ \E i \in SlotsIn(oa, "DELETED") : oa.table[i].key \notin StoredKeys(oa)
    /\ \E i \in SlotsIn(oa, "EMPTY") : oa.table[i].key \in OAKeys
    /\ StoredKeys(oa) # {}

(***************************************************************************)
(* C5  remove of a key that is not live returns false and changes nothing: *)
(* size, table_size, every slot, every tree (shape, heights, keys, values) *)
(* are as before.                                                          *)
(***************************************************************************)
C5_RemoveAbsent ==
    \A k \in CallKeys :
        k \notin StoredKeys(Table) =>
            /\ ~remove(Table, k).ret
            /\ remove(Table, k).S = Table

\* an AVL table with a tree of three nodes and a key that is not stored
C5_Witness ==
    /\ variant = "AVL"
    /\ \E i \in DOMAIN avl.table : TreeCount(avl.heap, avl.table[i]) = 3
    /\ \E k \in AVLKeys : k \notin StoredKeys(avl)
    /\ ~insertsOnly

(***************************************************************************)
(* C6  Growth: a resize triggered inside insert leaves the live (key,      *)
(* value) pairs as they were: size() is the same after the rehash, every   *)
(* key found before is found afterwards with the same value, and no other  *)
(* key is found.                                                           *)
(***************************************************************************)
LoadExceeded(S) == IF variant = "OA" THEN OALoadExceeded(S) ELSE AVLLoadExceeded(S)

resize(S) == IF variant = "OA" THEN OAresize(S) ELSE AVLresize(S)

C6_GrowthCorrect ==
    /\ LoadExceeded(Table) =>
          LET R == resize(Table).S
          IN  /\ size(R) = size(Table)
              /\ Entries(R) = Entries(Table)
              /\ \A k \in Keys : Lookup(R, k) = Lookup(Table, k)
    /\ \A k \in CallKeys, v \in Vals :
          LET r == insert(Table, k, v)
          IN  r.resizes > 0 =>
                 /\ \A j \in Keys \ {k} : Lookup(r.S, j) = Lookup(Table, j)
                 /\ Lookup(r.S, k) = [ret |-> TRUE, value |-> v]
                 /\ size(r.S) = size(Table) + (IF k \in StoredKeys(Table) THEN 0 ELSE 1)

\* a table that has grown to four slots, holds live keys and a tombstone, and
\* grows again at the next insert
C6_Witness ==
    /\ variant = "OA"
    /\ oa.table_size = 4
    /\ OALoadExceeded(oa)
    /\ SlotsIn(oa, "DELETED") # {}
    /\ \E k \in OAKeys : live[k] = 2

(***************************************************************************)
(* C7  Open addressing: for every live key K the walk over the slots       *)
(* hash(K), hash(K) + 1, ... (modulo table_size) reaches the OCCUPIED slot *)
(* that holds K before any EMPTY slot, in fewer than table_size steps.     *)
(***************************************************************************)
\* the slot d steps after the home slot of key
SlotAfter(S, key, d) == (hash_function(key, S.table_size) + d) % S.table_size

\* key is stored d steps after its home slot, no EMPTY slot before it
ReachedAt(S, key, d) ==
    /\ S.table[SlotAfter(S, key, d)].state = "OCCUPIED"
    /\ S.table[SlotAfter(S, key, d)].key = key
    /\ \A e \in 0..(d - 1) : S.table[SlotAfter(S, key, e)].state # "EMPTY"

C7_ProbeReachable ==
    variant = "OA" =>
        \A i \in SlotsIn(oa, "OCCUPIED") :
            \E d \in 0..(oa.table_size - 1) : ReachedAt(oa, oa.table[i].key, d)

\* a live key stored two steps after its home slot, around the end of the
\* table and behind a tombstone
C7_Witness ==
    /\ variant = "OA"
    /\ \E k \in StoredKeys(oa) :
          /\ ReachedAt(oa, k, 2)
          /\ SlotAfter(oa, k, 2) < SlotAfter(oa, k, 0)
          /\ oa.table[SlotAfter(oa, k, 1)].state = "DELETED"

(***************************************************************************)
(* C8  AVL balance: at every node of every bucket's tree the heights of    *)
(* the left and the right subtree, as the tree has them, differ by at most *)
(* one.                                                                    *)
(***************************************************************************)
RECURSIVE TrueHeight(_, _)
\* the height of the tree at node: 0 for no tree
TrueHeight(h, node) ==
    IF node = NULL THEN 0
    ELSE 1 + Max(TrueHeight(h, h[node].left), TrueHeight(h, h[node].right))

BalancedAt(h, a) ==
    LET d == TrueHeight(h, h[a].left) - TrueHeight(h, h[a].right)
    IN  d \in {-1, 0, 1}

C8_Balanced ==
    variant = "AVL" => \A a \in AllAddrs(avl) : BalancedAt(avl.heap, a)

\* the tree of a bucket keeps its old root below a new one when a key is
\* removed: the removal rotates
C8_Witness ==
    /\ variant = "AVL"
    /\ \E k \in AVLKeys :
          LET i == hash_function(k, avl.table_size)
              r == AVLremove(avl, k)
          IN  /\ r.ret
              /\ r.S.table[i] # avl.table[i]
              /\ r.S.heap[avl.table[i]].used
              /\ r.S.heap[avl.table[i]].key = avl.heap[avl.table[i]].key

(***************************************************************************)
(* C9  Binary search tree: the in-order traversal of every bucket's tree   *)
(* yields strictly increasing keys.                                        *)
(***************************************************************************)
RECURSIVE InOrder(_, _)
\* the keys of the tree at node, in order
InOrder(h, node) ==
    IF node = NULL THEN <<>>
    ELSE InOrder(h, h[node].left) \o <<h[node].key>> \o InOrder(h, h[node].right)

StrictlyIncreasing(q) == \A i \in 1..(Len(q) - 1) : q[i] < q[i + 1]

C9_SearchTree ==
    variant = "AVL" =>
        \A i \in DOMAIN avl.table : StrictlyIncreasing(InOrder(avl.heap, avl.table[i]))

\* after a removal, a tree whose root has two children and a right subtree of
\* two nodes: removing the root's key takes the successor from that subtree
C9_Witness ==
    /\ variant = "AVL"
    /\ ~insertsOnly
    /\ \E i \in DOMAIN avl.table :
          /\ avl.table[i] # NULL
          /\ avl.heap[avl.table[i]].left # NULL
          /\ TreeCount(avl.heap, avl.heap[avl.table[i]].right) = 2

(***************************************************************************)
(* C10  Lazy deletion: in open addressing remove(K) leaves the flag and    *)
(* the value of find(K') as they were for every other key K'; with keys in *)
(* slots i, i + 1, i + 2 by probing from one home slot, the key at i + 2   *)
(* is still found once the key at i + 1 is removed.                        *)
(***************************************************************************)
C10_LazyDeletion ==
    variant = "OA" =>
        \A k \in OAKeys : \A j \in OAKeys \ {k} :
            Lookup(OAremove(oa, k).S, j) = Lookup(oa, j)

\* three keys of one home slot i were stored at i, i + 1 and i + 2, and the
\* one at i + 1 has been removed
C10_Witness ==
    /\ variant = "OA"
    /\ \E k \in StoredKeys(oa) :
          /\ ReachedAt(oa, k, 2)
          /\ oa.table[SlotAfter(oa, k, 0)].state = "OCCUPIED"
          /\ oa.table[SlotAfter(oa, k, 1)].state = "DELETED"
          /\ \A d \in 0..1 :
                SlotAfter(oa, oa.table[SlotAfter(oa, k, d)].key, 0) = SlotAfter(oa, k, 0)
          /\ oa.table[SlotAfter(oa, k, 1)].key \notin StoredKeys(oa)
          /\ Lookup(oa, k).ret

(***************************************************************************)
(* C11  An open-addressing insert(K, v) returns false only when K is not   *)
(* in the table and the table has no usable slot at all: no EMPTY slot and *)
(* no DELETED slot.                                                        *)
(***************************************************************************)
C11_FailsOnlyWhenSaturated ==
    variant = "OA" =>
        \A k \in OAKeys, v \in Vals :
            ~OAinsert(oa, k, v).ret =>
                /\ k \notin StoredKeys(oa)
                /\ SlotsIn(oa, "EMPTY") = {}
                /\ SlotsIn(oa, "DELETED") = {}

(***************************************************************************)
(* C12  Saturation does not occur: after any sequence of insert, remove,   *)
(* find and clear on an open-addressing table, every insert(K, v) returns  *)
(* true.                                                                   *)
(***************************************************************************)
C12_InsertNeverFails ==
    variant = "OA" => \A k \in OAKeys, v \in Vals : OAinsert(oa, k, v).ret

(***************************************************************************)
(* C13  An open-addressing insert that returns false leaves the table as   *)
(* it was: every slot's state, key and value, current_size and table_size. *)
(***************************************************************************)
C13_FailedInsertChangesNothing ==
    variant = "OA" =>
        \A k \in OAKeys, v \in Vals :
            LET r == OAinsert(oa, k, v)
            IN  ~r.ret => r.S = oa /\ r.resizes = 0

\* an insert fails on a table that holds a live key with the other value
C13_Witness ==
    /\ variant = "OA"
    /\ \E k \in OAKeys :
          /\ ~OAinsert(oa, k, 1).ret
          /\ oa.table[probe(oa, k)].state = "OCCUPIED"
          /\ oa.table[probe(oa, k)].value = 2

(***************************************************************************)
(* C14  insert on the AVL table has no failure outcome: for every key,     *)
(* every value and every reachable table it returns true, and find(key)    *)
(* yields the value afterwards.                                            *)
(***************************************************************************)
C14_AVLInsertSucceeds ==
    variant = "AVL" =>
        \A k \in AVLKeys, v \in Vals :
            LET r == AVLinsert(avl, k, v)
            IN  /\ r.ret
                /\ AVLfind(r.S, k, NoValue) = [ret |-> TRUE, value |-> v]

\* after a removal, a table of three keys that the next insert makes grow,
\* one key present with the other value
C14_Witness ==
    /\ variant = "AVL"
    /\ ~insertsOnly
    /\ avl.current_size = 3
    /\ AVLLoadExceeded(avl)
    /\ \E k \in StoredKeys(avl) : AVLfind(avl, k, NoValue).value = 1

(***************************************************************************)
(* C15  clear() leaves size() = 0 and every find returning false; in open  *)
(* addressing every slot, OCCUPIED or DELETED, becomes EMPTY, in the AVL   *)
(* table every bucket root becomes absent; table_size is unchanged, and    *)
(* the cleared table is usable: an insert into it succeeds, is found, and  *)
(* is the only key stored.                                                 *)
(***************************************************************************)
clear(S) == IF variant = "OA" THEN OAclear(S) ELSE AVLclear(S)

C15_ClearEmpties ==
    LET C == clear(Table)
    IN  /\ size(C) = 0
        /\ \A k \in Keys : ~Lookup(C, k).ret
        /\ C.table_size = Table.table_size
        /\ DOMAIN C.table = DOMAIN Table.table
        /\ variant = "OA" => \A i \in DOMAIN C.table : C.table[i].state = "EMPTY"
        /\ variant = "AVL" =>
              /\ \A i \in DOMAIN C.table : C.table[i] = NULL
              /\ \A a \in Addrs : C.heap[a] = FreeCell
        /\ \A k \in CallKeys, v \in Vals :
              LET r == insert(C, k, v)
              IN  /\ r.ret
                  /\ Lookup(r.S, k) = [ret |-> TRUE, value |-> v]
                  /\ size(r.S) = 1
                  /\ StoredKeys(r.S) = {k}
                  /\ size(remove(r.S, k).S) = 0

\* a cleared open-addressing table of four slots: every slot is EMPTY and
\* slots still hold the keys and values they had
C15_Witness ==
    /\ variant = "OA"
    /\ oa.table_size = 4
    /\ oa.current_size = 0
    /\ \A i \in DOMAIN oa.table : oa.table[i].state = "EMPTY"
    /\ Cardinality({i \in DOMAIN oa.table : oa.table[i].value = 2}) >= 2

(***************************************************************************)
(* Two tables behind the one interface, an OpenAddressingHashTable and an  *)
(* AVLHashTable constructed with the same capacity, given the same calls   *)
(* (variant "PAIR").  live is the key-to-value map a caller expects: every *)
(* insert stores, remove and clear erase.                                  *)
(***************************************************************************)
InitPair ==
    /\ variant = "PAIR"
    /\ \E n \in InitCaps :
          /\ oa = OANew(n)
          /\ avl = AVLNew(n)
    /\ live = [k \in Keys |-> 0]
    /\ insertsOnly = TRUE
    /\ flight = NoFlight
    /\ raced = FALSE
    /\ hashed = NoHash

\* the two tables store the same (key, value) pairs: no call so far has told
\* them apart, and the caller goes on
SamePairs ==
    {<<oa.table[i].key, oa.table[i].value>> : i \in SlotsIn(oa, "OCCUPIED")}
        = {<<avl.heap[a].key, avl.heap[a].value>> : a \in AllAddrs(avl)}

PairInsert(key, v) ==
    /\ variant = "PAIR"
    /\ SamePairs
    /\ OALoadExceeded(oa) => oa.table_size * 2 <= MaxTableSize
    /\ AVLLoadExceeded(avl) => avl.table_size * 2 <= MaxTableSize
    /\ oa' = OAinsert(oa, key, v).S
    /\ avl' = AVLinsert(avl, key, v).S
    /\ live' = [live EXCEPT ![key] = v]
    /\ UNCHANGED <<variant, insertsOnly>>
    /\ UNCHANGED others

PairRemove(key) ==
    /\ variant = "PAIR"
    /\ SamePairs
    /\ oa' = OAremove(oa, key).S
    /\ avl' = AVLremove(avl, key).S
    /\ live' = [live EXCEPT ![key] = 0]
    /\ insertsOnly' = FALSE
    /\ UNCHANGED variant
    /\ UNCHANGED others

\* find changes no field of either table
PairFind(key) ==
    /\ variant = "PAIR"
    /\ SamePairs
    /\ UNCHANGED vars

PairClear ==
    /\ variant = "PAIR"
    /\ SamePairs
    /\ oa' = OAclear(oa)
    /\ avl' = AVLclear(avl)
    /\ live' = [k \in Keys |-> 0]
    /\ insertsOnly' = FALSE
    /\ UNCHANGED variant
    /\ UNCHANGED others

NextPair ==
    \/ \E k \in OAKeys, v \in Vals : PairInsert(k, v)
    \/ \E k \in OAKeys : PairRemove(k)
    \/ \E k \in OAKeys : PairFind(k)
    \/ PairClear

SpecPair == InitPair /\ [][NextPair]_vars

\* what find(key) returns on the map a caller expects
Expected(key) == [ret |-> live[key] # 0, value |-> live[key]]

(***************************************************************************)
(* C16  The strategies are interchangeable: the two tables, constructed    *)
(* with the same capacity and given the same calls, return the same        *)
(* results at every step (insert and remove flags, find flags and values,  *)
(* sizes), and these are the results of a key-to-value map.                *)
(***************************************************************************)
C16_Interchangeable ==
    variant = "PAIR" =>
        /\ OAsize(oa) = AVLsize(avl)
        /\ AVLsize(avl) = Cardinality({k \in Keys : live[k] # 0})
        /\ \A k \in OAKeys :
              /\ OAfind(oa, k, NoValue) = AVLfind(avl, k, NoValue)
              /\ AVLfind(avl, k, NoValue) = Expected(k)
              /\ OAremove(oa, k).ret = AVLremove(avl, k).ret
              /\ AVLremove(avl, k).ret = Expected(k).ret
              /\ \A v \in Vals :
                    /\ OAinsert(oa, k, v).ret = AVLinsert(avl, k, v).ret
                    /\ AVLinsert(avl, k, v).ret

(***************************************************************************)
(* C17  A failed open-addressing insert keeps failing until growth is      *)
(* triggered: once insert(K, v) has returned false, a later insert(K, v')  *)
(* returns false unless table_size has been increased by a resize.         *)
(***************************************************************************)
\* insert(key, v) returns false for every v
OAInsertFails(S, key) == \A v \in Vals : ~OAinsert(S, key, v).ret

\* insert(key, v) returns false or calls resize
FailsOrGrows(S, key) ==
    \A v \in Vals : LET r == OAinsert(S, key, v) IN ~r.ret \/ r.resizes > 0

InsertOrFindStep ==
    \/ \E j \in OAKeys, v \in Vals : OAInsert(j, v)
    \/ \E j \in OAKeys : OAFind(j)

InitRace ==
    /\ variant = "OA"
    /\ \E n \in InitCaps :
          /\ oa = OANew(n)
          /\ avl = AVLNew(n)
    /\ live = [k \in Keys |-> 0]
    /\ insertsOnly = TRUE
    /\ flight = NoFlight
    /\ raced = FALSE
    /\ hashed = NoHash

\* an insert that stores a new key and leaves the counter as it is
OAinsertAfterResizeKeepsCount(T, key, value) ==
    LET index == probe(T, key)
    IN  IF SlotHolds(T, index, key)
        THEN [S |-> [T EXCEPT !.table[index].value = value], ret |-> TRUE]
        ELSE IF T.table[index].state # "OCCUPIED"
        THEN [S |-> [T EXCEPT !.table[index] = Entry(key, value)], ret |-> TRUE]
        ELSE [S |-> T, ret |-> FALSE]

\* insert, from the call of probe on: what insert does once resize() has
\* returned
OAinsertAfterResize(T, key, value) ==
    LET index == probe(T, key)
    IN  IF SlotHolds(T, index, key)
        THEN [S |-> [T EXCEPT !.table[index].value = value], ret |-> TRUE]
        ELSE IF T.table[index].state # "OCCUPIED"
        THEN [S |-> [T EXCEPT !.table[index] = Entry(key, value),
                              !.current_size = @ + 1],
              ret |-> TRUE]
        ELSE [S |-> T, ret |-> FALSE]

\* insert(key, v) finds the load factor exceeded and enters resize(): the old
\* table is moved away, table_size is doubled, the table is made anew
ResizeSwap(key, v) ==
    /\ flight.pc = "idle"
    /\ ~raced
    /\ OALoadExceeded(oa)
    /\ oa.table_size * 2 <= MaxTableSize
    /\ flight' = [pc |-> "swapped", old_table |-> oa.table, i |-> 0,
                  key |-> key, value |-> v]
    /\ oa' = [oa EXCEPT !.table = OANew(oa.table_size * 2).table,
                        !.table_size = @ * 2]
    /\ UNCHANGED <<variant, avl, live, insertsOnly, raced, hashed>>

\* current_size = 0
ResizeResetCount ==
    /\ flight.pc = "swapped"
    /\ oa' = [oa EXCEPT !.current_size = 0]
    /\ flight' = [flight EXCEPT !.pc = "reinsert"]
    /\ UNCHANGED <<variant, avl, live, insertsOnly, raced, hashed>>

\* one round of the loop over old_table
ResizeReinsert ==
    /\ flight.pc = "reinsert"
    /\ flight.i \in DOMAIN flight.old_table
    /\ LET entry == flight.old_table[flight.i]
       IN  oa' = IF Reinserted(entry)
                 THEN OAinsert(oa, entry.key, entry.value).S
                 ELSE oa
    /\ flight' = [flight EXCEPT !.i = @ + 1]
    /\ UNCHANGED <<variant, avl, live, insertsOnly, raced, hashed>>

\* resize() returns and insert goes on with the key it was called with
ResizeReturn ==
    /\ flight.pc = "reinsert"
    /\ flight.i \notin DOMAIN flight.old_table
    /\ LET r == OAinsertAfterResize(oa, flight.key, flight.value)
       IN  /\ oa' = r.S
           /\ live' = LiveAfterInsert(flight.key, flight.value, r.ret)
    /\ flight' = NoFlight
    /\ UNCHANGED <<variant, avl, insertsOnly, raced, hashed>>

\* a call of insert that runs at once; when no resize() is under way, it is a
\* call that needs none
RaceInsert(key, v) ==
    /\ ~raced
    /\ flight.pc = "idle" => ~OALoadExceeded(oa)
    /\ OALoadExceeded(oa) => oa.table_size * 2 <= MaxTableSize
    /\ LET r == OAinsert(oa, key, v)
       IN  /\ oa' = r.S
           /\ live' = LiveAfterInsert(key, v, r.ret)
    /\ raced' = (raced \/ flight.pc # "idle")
    /\ UNCHANGED <<variant, avl, insertsOnly, flight, hashed>>

RaceRemove(key) ==
    /\ ~raced
    /\ oa' = OAremove(oa, key).S
    /\ live' = [live EXCEPT ![key] = 0]
    /\ insertsOnly' = FALSE
    /\ raced' = (raced \/ flight.pc # "idle")
    /\ UNCHANGED <<variant, avl, flight, hashed>>

RaceClear ==
    /\ ~raced
    /\ oa' = OAclear(oa)
    /\ live' = [k \in Keys |-> 0]
    /\ insertsOnly' = FALSE
    /\ raced' = (raced \/ flight.pc # "idle")
    /\ UNCHANGED <<variant, avl, flight, hashed>>

NextRace ==
    \/ \E k \in OAKeys, v \in Vals : ResizeSwap(k, v)
    \/ ResizeResetCount
    \/ ResizeReinsert
    \/ ResizeReturn
    \/ \E k \in OAKeys, v \in Vals : RaceInsert(k, v)
    \/ \E k \in OAKeys : RaceRemove(k)
    \/ RaceClear

SpecRace == InitRace /\ [][NextRace]_vars

(***************************************************************************)
(* C18  The tables are not safe for concurrent use: when a second          *)
(* mutating call runs while a resize is under way, the table can end up    *)
(* inconsistent, with current_size different from the number of live keys  *)
(* or with a key that was inserted and never removed not findable.  When   *)
(* no call has run during a resize, every call leaves the table            *)
(* consistent.                                                             *)
(***************************************************************************)
Inconsistent ==
    \/ OAsize(oa) # Cardinality(SlotsIn(oa, "OCCUPIED"))
    \/ \E k \in OAKeys : live[k] # 0 /\ OAfind(oa, k, NoValue).value # live[k]

C18_ConsistentUnlessRaced ==
    (flight.pc = "idle" /\ ~raced) => ~Inconsistent

\* every call has returned, one ran during a resize, and current_size is not
\* the number of OCCUPIED slots
C18_Witness ==
    /\ flight.pc = "idle"
    /\ raced
    /\ OAsize(oa) # Cardinality(SlotsIn(oa, "OCCUPIED"))

(***************************************************************************)
(* hash_function called alone, with a key and a capacity of the caller's   *)
(* choice (variant "HASH").                                                *)
(***************************************************************************)
InitHash ==
    /\ variant = "HASH"
    /\ oa = OANew(1)
    /\ avl = AVLNew(1)
    /\ live = [k \in Keys |-> 0]
    /\ insertsOnly = TRUE
    /\ flight = NoFlight
    /\ raced = FALSE
    /\ \E k \in HashKeys, n \in HashCaps :
          hashed = [key |-> k, capacity |-> n, called |-> FALSE, index |-> 0]

CallHash ==
    /\ variant = "HASH"
    /\ ~hashed.called
    /\ hashed' = [hashed EXCEPT !.called = TRUE,
                                !.index = hash_function(hashed.key, hashed.capacity)]
    /\ UNCHANGED <<variant, oa, avl, live, insertsOnly, flight, raced>>

NextHash == CallHash

SpecHash == InitHash /\ [][NextHash]_vars

\* u is a 32-bit word
IsWord(u) == u[1] \in 0..65535 /\ u[2] \in 0..65535

InsertStep ==
    \/ \E k \in OAKeys, v \in Vals : OAInsert(k, v)
    \/ \E k \in AVLKeys, v \in Vals : AVLInsert(k, v)

\* what the calls do to table_size, in the state at hand
CallsKeepOrDouble ==
    /\ clear(Table).table_size = Table.table_size
    /\ \A k \in CallKeys :
          /\ remove(Table, k).S.table_size = Table.table_size
          /\ \A v \in Vals :
                LET r == insert(Table, k, v)
                IN  /\ r.resizes \in {0, 1}
                    /\ r.resizes = 0 => r.S.table_size = Table.table_size
                    /\ r.resizes = 1 => r.S.table_size = 2 * Table.table_size
                    /\ r.resizes = 1 <=> LoadExceeded(Table)

C20_CapacityOnlyDoubles ==
    /\ [](variant \in {"OA", "AVL"} => CallsKeepOrDouble)
    /\ [][/\ \/ oa'.table_size = oa.table_size
             \/ oa'.table_size = 2 * oa.table_size /\ InsertStep
          /\ \/ avl'.table_size = avl.table_size
             \/ avl'.table_size = 2 * avl.table_size /\ InsertStep]_vars

\* an open-addressing table that has grown to four slots and has been emptied
\* by remove: the four slots stay
C20_Witness ==
    /\ variant = "OA"
    /\ oa.table_size = 4
    /\ oa.current_size = 0
    /\ Cardinality(SlotsIn(oa, "DELETED")) >= 2

(***************************************************************************)
(* Growth                                                                  *)
(***************************************************************************)
\* the state an insert leaves when it is entered in S and resize() runs first
GrowsThenPlaces(S, key, value) ==
    IF variant = "OA"
    THEN OAinsertAfterResize(OAresize(S).S, key, value).S
    ELSE LET R == AVLresize(S).S
             index == hash_function(key, R.table_size)
             r == insert_avl(R.heap, R.table[index], key, value)
         IN  [R EXCEPT !.heap = r.h,
                       !.table[index] = r.root,
                       !.current_size = IF r.inserted THEN @ + 1 ELSE @]

\* C21: an insert resizes exactly when it is entered with current_size /
\* table_size strictly above the threshold of the variant (1/2 for open
\* addressing, 1 for the AVL table); the resize comes before the key is
\* placed, so the call leaves what placing the key in the resized table
\* leaves, and it comes as well when the key is already stored; an insert
\* entered at or below the threshold resizes nothing and keeps table_size.
C21_GrowthTrigger ==
    variant \in {"OA", "AVL"} =>
       \A k \in CallKeys, v \in Vals :
          LET r == insert(Table, k, v)
              above == IF variant = "OA"
                       THEN 2 * Table.current_size > Table.table_size
                       ELSE Table.current_size > Table.table_size
          IN  IF above
              THEN /\ r.resizes = 1
                   /\ r.S.table_size = 2 * Table.table_size
                   /\ r.S = GrowsThenPlaces(Table, k, v)
              ELSE /\ r.resizes = 0
                   /\ r.S.table_size = Table.table_size

\* a table above its threshold that stores a key: the insert that only
\* overwrites this key doubles the table
C21_Witness ==
    /\ variant \in {"OA", "AVL"}
    /\ LoadExceeded(Table)
    /\ \E k \in StoredKeys(Table) : \E v \in Vals :
          /\ insert(Table, k, v).resizes = 1
          /\ size(insert(Table, k, v).S) = size(Table)

\* the open-addressing table alone: an OpenAddressingHashTable behind the
\* interface, and the calls made on it
InitOA == Init /\ variant = "OA"

NextOA ==
    \/ \E k \in OAKeys, v \in Vals : OAInsert(k, v)
    \/ \E k \in OAKeys : OARemove(k)
    \/ \E k \in OAKeys : OAFind(k)
    \/ OAClear

SpecOA == InitOA /\ [][NextOA]_vars

\* the (key, value) pairs of the OCCUPIED slots
OccupiedPairs(S) == {<<S.table[i].key, S.table[i].value>> : i \in SlotsIn(S, "OCCUPIED")}

\* C22: when resize finishes on an open-addressing table, the new table has
\* twice the slots, none of them DELETED; its OCCUPIED slots hold exactly the
\* (key, value) pairs that were OCCUPIED in the old table, one slot for each;
\* every other slot is EMPTY, with the key and the value of a fresh entry.
C22_ResizeDropsTombstones ==
    variant = "OA" /\ OALoadExceeded(oa) =>
       LET R == OAresize(oa).S
       IN  /\ DOMAIN R.table = 0..(2 * oa.table_size - 1)
           /\ SlotsIn(R, "DELETED") = {}
           /\ OccupiedPairs(R) = OccupiedPairs(oa)
           /\ Cardinality(SlotsIn(R, "OCCUPIED")) = Cardinality(SlotsIn(oa, "OCCUPIED"))
           /\ \A i \in DOMAIN R.table :
                 R.table[i].state # "OCCUPIED" => R.table[i] = EmptyEntry
           /\ R.current_size = Cardinality(SlotsIn(R, "OCCUPIED"))

\* a table above its threshold with a tombstone whose stale key is stored
\* nowhere: the resized table has no slot with that key
C22_Witness ==
    /\ variant = "OA"
    /\ OALoadExceeded(oa)
    /\ \E i \in SlotsIn(oa, "DELETED") :
          /\ oa.table[i].key \notin StoredKeys(oa)
          /\ \A j \in DOMAIN OAresize(oa).S.table :
                OAresize(oa).S.table[j].key # oa.table[i].key

\* C23: an open-addressing table of three slots or more always has an EMPTY
\* slot: the DELETED slots never fill all the slots that are not OCCUPIED.
C23_AlwaysAnEmptySlot ==
    variant = "OA" /\ oa.table_size >= 3 => SlotsIn(oa, "EMPTY") # {}

(***************************************************************************)
(* The probe sequence                                                      *)
(***************************************************************************)
\* the distances from the home slot of key at which the walk ends: the slot
\* is EMPTY, or OCCUPIED with key
StopDistances(S, key) ==
    {d \in 0..(S.table_size - 1) :
        \/ S.table[SlotAfter(S, key, d)].state = "EMPTY"
        \/ SlotHolds(S, SlotAfter(S, key, d), key)}

\* the least of a non-empty set of numbers
Least(D) == CHOOSE d \in D : \A e \in D : d <= e

\* C24: probe(K) is a slot index; it is the OCCUPIED slot holding K when the
\* walk from hash(K) meets that slot before any EMPTY slot, else the first
\* EMPTY slot of the walk, else (no EMPTY slot, K in no OCCUPIED slot) the
\* home slot hash(K). OCCUPIED slots with another key and DELETED slots,
\* whatever key they still hold, never end the walk.
C24_ProbeResult ==
    variant = "OA" =>
       \A k \in OAKeys :
          LET D == StopDistances(oa, k)
              p == probe(oa, k)
          IN  /\ p \in 0..(oa.table_size - 1)
              /\ D = {} => p = hash_function(k, oa.table_size)
              /\ D # {} =>
                    /\ p = SlotAfter(oa, k, Least(D))
                    /\ \A d \in 0..(Least(D) - 1) :
                          LET e == oa.table[SlotAfter(oa, k, d)]
                          IN  \/ e.state = "DELETED"
                              \/ e.state = "OCCUPIED" /\ e.key # k
                    /\ (\E d \in D : ReachedAt(oa, k, d)) => SlotHolds(oa, p, k)
                    /\ ~(\E d \in D : ReachedAt(oa, k, d)) => oa.table[p].state = "EMPTY"

\* a table without an EMPTY slot, with key K stored and a tombstone that
\* still holds K earlier on the walk: probe steps over the tombstone
C24_Witness ==
    /\ variant = "OA"
    /\ SlotsIn(oa, "EMPTY") = {}
    /\ \E k \in OAKeys :
          /\ oa.table[hash_function(k, oa.table_size)].state = "DELETED"
          /\ oa.table[hash_function(k, oa.table_size)].key = k
          /\ SlotHolds(oa, probe(oa, k), k)
    /\ \E j \in OAKeys :
          /\ j \notin StoredKeys(oa)
          /\ probe(oa, j) = hash_function(j, oa.table_size)
          /\ oa.table[probe(oa, j)].state = "OCCUPIED"

\* a wrap-around test that never fires
WrapsNever(index, original_index) == FALSE

\* a wrap-around test that fires one slot before the starting index as well
WrapsOneEarly(index, original_index) ==
    index = original_index \/ index + 1 = original_index

\* if (index == original_index) break;
WrapsAround(index, original_index) == index = original_index

RECURSIVE ProbeRun(_, _, _, _, _, _)
\* the while loop of probe run for at most fuel tests of its condition: the
\* index reached, the number of advances made, whether the loop has been
\* left, and whether it was left by the break
ProbeRun(S, key, index, original_index, advances, fuel) ==
    IF fuel = 0
    THEN [index |-> index, advances |-> advances, left |-> FALSE, wrapped |-> FALSE]
    ELSE IF ProbeContinues(S, key, index)
    THEN LET next == (index + 1) % S.table_size
         IN  IF WrapsAround(next, original_index)
             THEN [index |-> next, advances |-> advances + 1,
                   left |-> TRUE, wrapped |-> TRUE]
             ELSE ProbeRun(S, key, next, original_index, advances + 1, fuel - 1)
    ELSE [index |-> index, advances |-> advances, left |-> TRUE, wrapped |-> FALSE]

\* probe(key) on S, given twice as many rounds as S has slots
ProbeCounted(S, key) ==
    LET index == hash_function(key, S.table_size)
    IN  ProbeRun(S, key, index, index, 0, 2 * S.table_size)

\* the tables on which a call of insert, remove or find in the state at hand
\* runs probe: the table as it is, and the table resize() leaves when insert
\* finds the load factor exceeded
ProbedTables == {oa} \cup (IF OALoadExceeded(oa) THEN {OAresize(oa).S} ELSE {})

\* C25: on every reachable open-addressing table, a table without an EMPTY
\* slot included, and for every key, the loop of probe is left after at most
\* table_size advances, at the index probe returns; hence the one probe that
\* insert, remove and find each make comes to its end.
C25_ProbeTerminates ==
    variant = "OA" =>
       \A T \in ProbedTables, k \in OAKeys :
          LET r == ProbeCounted(T, k)
          IN  /\ r.left
              /\ r.advances <= T.table_size
              /\ r.index = probe(T, k)

\* a table of four slots, none EMPTY, and a key stored in none of them: probe
\* makes four advances and leaves by the break
C25_Witness ==
    /\ variant = "OA"
    /\ oa.table_size = 4
    /\ SlotsIn(oa, "EMPTY") = {}
    /\ SlotsIn(oa, "DELETED") # {}
    /\ \E k \in OAKeys :
          /\ k \notin StoredKeys(oa)
          /\ ProbeCounted(oa, k).wrapped
          /\ ProbeCounted(oa, k).advances = oa.table_size

\* every table of n slots as far as probe reads it: each slot in one of the
\* three states, holding one of the keys or the 0 of a fresh entry
Configurations(n) ==
    {[table |-> t, table_size |-> n, current_size |-> 0] :
        t \in [0..(n - 1) -> [key : OAKeys \cup {0}, value : {0},
                              state : {"EMPTY", "OCCUPIED", "DELETED"}]]}

\* the slots whose state probe(key) has tested when it has made the given
\* number of advances and left by the break
Examined(S, key, advances) == {SlotAfter(S, key, d) : d \in 0..(advances - 1)}

\* probe(key) on S leaves by the break before it has tested every slot
LeavesEarly(S, key) ==
    LET r == ProbeCounted(S, key)
    IN  r.wrapped /\ Examined(S, key, r.advances) # DOMAIN S.table

\* C26 as stated: some table of tombstones and keys makes probe leave its loop
\* through the wrap-around break with fewer than table_size slots examined.
C26_WrapLeavesEarly ==
    variant = "OA" =>
       \/ \E k \in OAKeys : LeavesEarly(oa, k)
       \/ \E n \in 1..MaxTableSize : \E T \in Configurations(n) :
             \E k \in OAKeys : LeavesEarly(T, k)

\* C26, amended: whenever probe leaves its loop through the wrap-around
\* break it has made exactly table_size advances and has tested every slot,
\* each of them DELETED or OCCUPIED by another key; the break never comes a
\* slot early.
C26_WrapExaminesAll ==
    variant = "OA" =>
       \A T \in ProbedTables, k \in OAKeys :
          LET r == ProbeCounted(T, k)
          IN  r.wrapped =>
                 /\ r.advances = T.table_size
                 /\ Examined(T, k, r.advances) = DOMAIN T.table
                 /\ \A i \in DOMAIN T.table : ProbeContinues(T, k, i)
                 /\ r.index = hash_function(k, T.table_size)

\* a table of three slots with two tombstones and one key: probe for an
\* absent key whose home slot is the OCCUPIED one leaves by the break, after
\* three advances, and insert reports a full table
C26_Witness ==
    /\ variant = "OA"
    /\ oa.table_size = 3
    /\ Cardinality(SlotsIn(oa, "DELETED")) = 2
    /\ \E k \in OAKeys :
          /\ ProbeCounted(oa, k).wrapped
          /\ ProbeCounted(oa, k).advances = 3
          /\ \A v \in Vals : ~OAinsert(oa, k, v).ret

(***************************************************************************)
(* Uniqueness of keys                                                      *)
(***************************************************************************)
\* no two OCCUPIED slots, and no two nodes of the buckets, hold the same key
KeysUnique(S) ==
    IF variant = "OA"
    THEN \A i, j \in SlotsIn(S, "OCCUPIED") : S.table[i].key = S.table[j].key => i = j
    ELSE /\ \A a, b \in AllAddrs(S) : S.heap[a].key = S.heap[b].key => a = b
         /\ SumCounts(S, 0) = Cardinality(AllAddrs(S))

\* C27: in every state a sequence of calls leads to, and after every insert
\* that grows the table of such a state (an insert that does not grow it leads
\* to another of these states), the open-addressing table has at most one
\* OCCUPIED slot for each key and the AVL table has at most one node for each
\* key over all its buckets; inserting a removed key again gives one copy.
C27_KeysUnique ==
    variant \in {"OA", "AVL"} =>
       /\ KeysUnique(Table)
       /\ LoadExceeded(Table) =>
             \A k \in CallKeys, v \in Vals : KeysUnique(insert(Table, k, v).S)

\* a key that was removed and inserted again: its tombstone still holds the
\* key, and one OCCUPIED slot elsewhere holds it too
C27_Witness ==
    /\ variant = "OA"
    /\ \E i \in SlotsIn(oa, "DELETED") : \E j \in SlotsIn(oa, "OCCUPIED") :
          /\ oa.table[i].key = oa.table[j].key
          /\ live[oa.table[j].key] # 0

(***************************************************************************)
(* AVL trees: heights, removal, storage                                    *)
(***************************************************************************)
\* the AVL table alone: an AVLHashTable behind the interface, and the calls
\* made on it
InitAVL == Init /\ variant = "AVL"

NextAVL ==
    \/ \E k \in AVLKeys, v \in Vals : AVLInsert(k, v)
    \/ \E k \in AVLKeys : AVLRemove(k)
    \/ \E k \in AVLKeys : AVLFind(k)
    \/ AVLClear

SpecAVL == InitAVL /\ [][NextAVL]_vars

\* every node of the buckets of S stores 1 + max of the heights stored in its
\* children, 0 for an absent child, which is the height of its subtree
HeightsExact(S) ==
    \A a \in AllAddrs(S) :
       /\ S.heap[a].height =
             1 + Max(get_height(S.heap, S.heap[a].left), get_height(S.heap, S.heap[a].right))
       /\ S.heap[a].height = TrueHeight(S.heap, a)

\* C28: after every public insert and remove on the AVL table (in every
\* state the calls lead to, and after every insert that grows the table) each
\* node's height field is 1 + max(height(left), height(right)), with height 0
\* for an absent subtree; this includes the nodes the rotations move and the
\* node that takes over the contents of its only child in a removal.
C28_HeightsExact ==
    variant = "AVL" =>
       /\ HeightsExact(avl)
       /\ AVLLoadExceeded(avl) =>
             \A k \in AVLKeys, v \in Vals : HeightsExact(AVLinsert(avl, k, v).S)

\* a node of height 2 with one child, a leaf: removing the node's key copies
\* the child over it, height 1 included, and frees the child; and a key whose
\* removal or insertion rotates, the root of its bucket changing while the
\* old root stays in the tree
C28_Witness ==
    /\ variant = "AVL"
    /\ \E a \in AllAddrs(avl) :
          LET c == IF avl.heap[a].left # NULL THEN avl.heap[a].left ELSE avl.heap[a].right
              r == AVLremove(avl, avl.heap[a].key).S
          IN  /\ (avl.heap[a].left = NULL) # (avl.heap[a].right = NULL)
              /\ avl.heap[a].height = 2
              /\ r.heap[a].used /\ r.heap[a].key = avl.heap[c].key
              /\ r.heap[a].height = 1
              /\ ~r.heap[c].used
    /\ \E k \in AVLKeys, v \in Vals :
          LET i == hash_function(k, avl.table_size)
              r == AVLinsert(avl, k, v).S
          IN  /\ ~AVLLoadExceeded(avl)
              /\ avl.table[i] # NULL
              /\ r.table[i] # avl.table[i]
              /\ r.heap[avl.table[i]].height < avl.heap[avl.table[i]].height + 1

\* the (key, value) pairs of the tree at node
TreeEntries(h, node) == {<<h[b].key, h[b].value>> : b \in TreeAddrs(h, node)}

\* the address whose node holds key in the tree at node
AddrOf(h, node, key) == CHOOSE b \in TreeAddrs(h, node) : h[b].key = key

\* the effect of remove(k) on the bucket of k, k being held by the node at
\* address a: by the shape of that node
RemovedByShape(S, a) ==
    LET h == S.heap
        k == h[a].key
        i == hash_function(k, S.table_size)
        R == AVLremove(S, k)
        g == R.S.heap
        l == h[a].left
        r == h[a].right
        freed == {b \in Addrs : h[b].used /\ ~g[b].used}
        only == IF r = NULL THEN TreeAddrs(h, l) ELSE {}
        rest == TreeAddrs(h, S.table[i]) \ ({a} \cup TreeAddrs(h, r) \cup only)
    IN  /\ R.ret
        /\ TreeEntries(g, R.S.table[i]) = TreeEntries(h, S.table[i]) \ {<<k, h[a].value>>}
        /\ \A j \in DOMAIN S.table : j # i => R.S.table[j] = S.table[j]
        /\ \A b \in rest : g[b].used /\ g[b].key = h[b].key /\ g[b].value = h[b].value
        /\ Cardinality(freed) = 1
        /\ IF l = NULL /\ r = NULL
           THEN \* a leaf: the node is gone
                /\ freed = {a}
                /\ a \notin TreeAddrs(g, R.S.table[i])
           ELSE IF l = NULL \/ r = NULL
           THEN \* one child: its contents take the place, its node is freed
                LET c == IF l # NULL THEN l ELSE r
                IN  /\ freed = {c}
                    /\ g[a].key = h[c].key /\ g[a].value = h[c].value
                    /\ a \in TreeAddrs(g, R.S.table[i])
           ELSE \* two children: the least key of the right subtree, and its
                \* value, take the place; the right subtree loses one node
                LET succ == Least({h[b].key : b \in TreeAddrs(h, r)})
                    s == AddrOf(h, r, succ)
                IN  /\ h[s].left = NULL
                    /\ \A b \in TreeAddrs(h, S.table[i]) :
                          h[b].key > k => h[b].key >= succ
                    /\ g[a].key = succ /\ g[a].value = h[s].value
                    /\ a \in TreeAddrs(g, R.S.table[i])
                    /\ freed \subseteq TreeAddrs(h, r)
                    /\ \A b \in TreeAddrs(g, R.S.table[i]) : g[b].key = succ => b = a

\* C29: removing a key whose node is a leaf makes the node absent; removing
\* one whose node has a single child puts the child's contents in the node's
\* place and frees the child; removing one whose node has two children puts
\* the key and the value of the in-order successor, the leftmost node of the
\* right subtree, in the node's place and takes the successor out of the
\* right subtree. Each time the bucket keeps its other keys with their values
\* and loses the removed key alone.
C29_RemovalByShape ==
    variant = "AVL" => \A a \in AllAddrs(avl) : RemovedByShape(avl, a)

\* a node with two children whose successor lies below the right child, and a
\* node with two children whose successor has a right child of its own
C29_Witness ==
    /\ variant = "AVL"
    /\ \E a \in AllAddrs(avl) :
          /\ avl.heap[a].left # NULL /\ avl.heap[a].right # NULL
          /\ \/ avl.heap[avl.heap[a].right].left # NULL
             \/ avl.heap[avl.heap[a].right].right # NULL
          /\ AVLremove(avl, avl.heap[a].key).S.heap[a].key
                = avl.heap[find_min(avl.heap, avl.heap[a].right)].key

\* the addresses of the nodes that are allocated
Allocated(S) == {a \in Addrs : S.heap[a].used}

\* the allocated nodes are the nodes reachable from the bucket roots, each
\* reachable by one path, and the links of a reachable node lead to nullptr or
\* to an allocated node
OwnedOnce(S) ==
    /\ Allocated(S) = AllAddrs(S)
    /\ SumCounts(S, 0) = Cardinality(AllAddrs(S))
    /\ \A a \in AllAddrs(S) :
          /\ S.heap[a].left # NULL => S.heap[S.heap[a].left].used
          /\ S.heap[a].right # NULL => S.heap[S.heap[a].right].used

\* C30: in every state that calls of insert, remove and clear lead to, growth
\* included, the allocated AVL nodes are exactly the nodes reachable from the
\* bucket roots, no node is reachable twice and no reachable node is freed;
\* the same holds after every insert that grows the table. After clear no
\* node is allocated. After resize as many nodes are allocated as before, all of them
\* in the new trees; the nodes of the old trees are freed (when one bucket
\* held them all, none of their addresses is in use afterwards).
C30_NodesOwnedOnce ==
    variant = "AVL" =>
       /\ OwnedOnce(avl)
       /\ Allocated(AVLclear(avl)) = {}
       /\ AllAddrs(AVLclear(avl)) = {}
       /\ AVLLoadExceeded(avl) =>
             LET R == AVLresize(avl).S
             IN  /\ OwnedOnce(R)
                 /\ \A k \in AVLKeys, v \in Vals : OwnedOnce(AVLinsert(avl, k, v).S)
                 /\ Cardinality(Allocated(R)) = Cardinality(Allocated(avl))
                 /\ (\E i \in DOMAIN avl.table :
                        TreeAddrs(avl.heap, avl.table[i]) = Allocated(avl))
                       => Allocated(R) \cap Allocated(avl) = {}

\* a table that has grown by inserts alone and has a free cell below an
\* allocated one: the cell of an old node, freed by resize
C30_Witness ==
    /\ variant = "AVL"
    /\ insertsOnly
    /\ avl.table_size > 1
    /\ \E a, b \in Addrs : a < b /\ ~avl.heap[a].used /\ avl.heap[b].used

(***************************************************************************)
(* Growth is not re-entered                                                *)
(***************************************************************************)
RECURSIVE OAReinsertReturns(_, _, _)
\* the loop of resize over old_table, from slot i on: every insert it makes
\* returns true
OAReinsertReturns(S, old_table, i) ==
    IF i \notin DOMAIN old_table THEN TRUE
    ELSE IF Reinserted(old_table[i])
         THEN LET r == OAinsert(S, old_table[i].key, old_table[i].value)
              IN  r.ret /\ OAReinsertReturns(r.S, old_table, i + 1)
         ELSE OAReinsertReturns(S, old_table, i + 1)

RECURSIVE CollectReturns(_, _)
\* collect_and_reinsert(node) on S: every insert it makes returns true
CollectReturns(S, node) ==
    IF node # NULL
    THEN LET r == AVLinsert(S, S.heap[node].key, S.heap[node].value)
             l == collect_and_reinsert(r.S, r.S.heap[node].left)
         IN  /\ r.ret
             /\ CollectReturns(r.S, r.S.heap[node].left)
             /\ CollectReturns(l.S, l.S.heap[node].right)
    ELSE TRUE

RECURSIVE AVLReinsertReturns(_, _, _)
\* the loop of the AVL resize over old_table, from bucket i on: every insert
\* it makes returns true
AVLReinsertReturns(S, old_table, i) ==
    IF i \notin DOMAIN old_table THEN TRUE
    ELSE IF old_table[i] # NULL
         THEN LET r == collect_and_reinsert(S, old_table[i])
                  c == [r.S EXCEPT !.heap = clear_avl(r.S.heap, old_table[i])]
              IN  /\ CollectReturns(S, old_table[i])
                  /\ AVLReinsertReturns(c, old_table, i + 1)
         ELSE AVLReinsertReturns(S, old_table, i + 1)

\* the inserts resize() makes on S all return true
NestedInsertsReturnTrue(S) ==
    IF variant = "OA"
    THEN OAReinsertReturns(OANew(S.table_size * 2), S.table, 0)
    ELSE AVLReinsertReturns([table |-> [i \in 0..(S.table_size * 2 - 1) |-> NULL],
                             table_size |-> S.table_size * 2,
                             current_size |-> 0,
                             heap |-> S.heap],
                            S.table, 0)

\* a call leaves table_size as it was or doubles it once
SizeKeptOrDoubled ==
    variant \in {"OA", "AVL"} =>
        \/ Table'.table_size = Table.table_size
        \/ Table'.table_size = 2 * Table.table_size

\* C31: a resize is not re-entered. When the load test of insert fires, in
\* either table, the inserts that resize makes for the old entries find the
\* load at or below the threshold, so the call of resize is the only one, and
\* each of those inserts returns true; an insert makes at most one resize, and
\* no call leaves table_size at anything but its old value or the double.
C31_ResizeNotReentered ==
    /\ [](variant \in {"OA", "AVL"} =>
             /\ LoadExceeded(Table) =>
                   /\ resize(Table).resizes = 1
                   /\ resize(Table).S.table_size = 2 * Table.table_size
                   /\ NestedInsertsReturnTrue(Table)
             /\ \A k \in CallKeys, v \in Vals :
                   /\ insert(Table, k, v).resizes <= 1
                   /\ insert(Table, k, v).S.table_size
                          \in {Table.table_size, 2 * Table.table_size})
    /\ [][SizeKeptOrDoubled]_vars

\* a table above its threshold that stores two keys or more: resize inserts
\* them one after the other into the doubled table, without another resize
C31_Witness ==
    /\ variant \in {"OA", "AVL"}
    /\ LoadExceeded(Table)
    /\ StoredCount(Table) >= 2
    /\ Table.table_size >= 2
    /\ resize(Table).resizes = 1
    /\ StoredCount(resize(Table).S) = StoredCount(Table)

\* the load of S is above the threshold by at most the one entry an insert
\* places: 2 * current_size <= table_size + 2 for open addressing,
\* current_size <= table_size + 1 for the AVL table
LoadBounded(S) ==
    IF variant = "OA"
    THEN 2 * S.current_size <= S.table_size + 2
    ELSE S.current_size <= S.table_size + 1

\* C32: after every public call has returned, the open-addressing table has
\* 2 * current_size <= table_size + 2 and the AVL table has
\* current_size <= table_size + 1; an insert that grows the table of such a
\* state leaves the bound in place (an insert that does not grow it leads to
\* another of these states).
C32_LoadBounded ==
    variant \in {"OA", "AVL"} =>
       /\ LoadBounded(Table)
       /\ LoadExceeded(Table) =>
             \A k \in CallKeys, v \in Vals : LoadBounded(insert(Table, k, v).S)

\* the bound is met with equality: a table of four slots with three live keys
C32_Witness ==
    /\ variant = "OA"
    /\ oa.table_size = 4
    /\ 2 * oa.current_size = oa.table_size + 2
    /\ Cardinality(SlotsIn(oa, "OCCUPIED")) = 3

(***************************************************************************)
(* Tombstones and ordinary inserts                                         *)
(***************************************************************************)
EmptyCount(S) == Cardinality(SlotsIn(S, "EMPTY"))

DeletedCount(S) == Cardinality(SlotsIn(S, "DELETED"))

\* insert(key, .) on S places a key that is not stored, without a resize, in
\* a DELETED slot
WritesTombstone(S, key) ==
    /\ key \notin StoredKeys(S)
    /\ ~OALoadExceeded(S)
    /\ S.table[probe(S, key)].state = "DELETED"

\* where insert places a key that is not stored: T is the table after the
\* resize, if insert makes one
NewKeyPlacement(S, key, value) ==
    LET T == IF OALoadExceeded(S) THEN OAresize(S).S ELSE S
        p == probe(T, key)
        r == OAinsert(S, key, value)
    IN  /\ r.ret =>
              /\ \A i \in DOMAIN T.table :
                    r.S.table[i] = IF i = p THEN Entry(key, value) ELSE T.table[i]
              /\ T.table[p].state \in {"EMPTY", "DELETED"}
              /\ T.table[p].state = "DELETED" =>
                    /\ SlotsIn(T, "EMPTY") = {}
                    /\ p = hash_function(key, T.table_size)
              /\ SlotsIn(T, "EMPTY") # {} => T.table[p].state = "EMPTY"
        /\ ~r.ret => r.S = T /\ T.table[p].state = "OCCUPIED"

\* a step that is neither a clear nor an insert that resizes
OrdinaryStep == oa'.table_size = oa.table_size /\ ~OAClear

\* C33 as stated: an insert of a new key writes into a DELETED slot only when
\* no slot is EMPTY and the DELETED slot is the key's home slot; and, resize
\* and clear apart, no step raises the number of EMPTY slots or lowers the
\* number of DELETED slots.
C33_TombstonesNeverReclaimed ==
    [][OrdinaryStep =>
          /\ EmptyCount(oa') <= EmptyCount(oa)
          /\ DeletedCount(oa') >= DeletedCount(oa)]_vars

\* C33, amended: an insert of a new key writes into a DELETED slot only when
\* no slot is EMPTY and the DELETED slot is the key's home slot, and into an
\* EMPTY slot otherwise. Resize and clear apart, no step raises the number of
\* EMPTY slots, and the number of DELETED slots goes down only by one, in an
\* insert that writes a new key into its DELETED home slot in a table without
\* an EMPTY slot.
C33_TombstonesReclaimedOnlyAtHome ==
    /\ [](\A k \in OAKeys \ StoredKeys(oa), v \in Vals : NewKeyPlacement(oa, k, v))
    /\ [][OrdinaryStep =>
             /\ EmptyCount(oa') <= EmptyCount(oa)
             /\ DeletedCount(oa') >= DeletedCount(oa) - 1
             /\ DeletedCount(oa') < DeletedCount(oa) =>
                   /\ EmptyCount(oa) = 0
                   /\ \E k \in OAKeys :
                         /\ WritesTombstone(oa, k)
                         /\ probe(oa, k) = hash_function(k, oa.table_size)
                         /\ SlotHolds(oa', probe(oa, k), k)]_vars

\* a table of three slots, all DELETED: the insert of any key writes into the
\* key's home slot, and one tombstone is gone
C33_Witness ==
    /\ oa.table_size = 3
    /\ DeletedCount(oa) = 3
    /\ \E k \in OAKeys, v \in Vals :
          /\ WritesTombstone(oa, k)
          /\ OAinsert(oa, k, v).ret
          /\ DeletedCount(OAinsert(oa, k, v).S) = 2

(***************************************************************************)
(* find                                                                    *)
(***************************************************************************)
\* the values a caller's value slot may hold when find is called
OutValues == Vals \cup {NoValue}

\* a step that is a call of find
FindStep ==
    \/ \E k \in OAKeys : OAFind(k)
    \/ \E k \in AVLKeys : AVLFind(k)

\* what find(key, out) returns in the state at hand: true and the value stored
\* for key, or false and out as it was passed
FindReturns(key, out) ==
    LET r == find(Table, key, out)
    IN  /\ r.ret <=> key \in StoredKeys(Table)
        /\ r.ret => <<key, r.value>> \in Entries(Table)
        /\ r.ret => r.value = live[key]
        /\ ~r.ret => r.value = out

\* C34: find is read-only. For either table a call of find changes no slot,
\* no node, neither current_size nor table_size; when it returns true the
\* value slot holds the value stored for the key, and when it returns false
\* the value slot holds what the caller passed in.
C34_FindReadOnly ==
    /\ [](variant \in {"OA", "AVL"} =>
             \A k \in CallKeys, out \in OutValues : FindReturns(k, out))
    /\ [][FindStep => oa' = oa /\ avl' = avl]_vars

\* a key stored with value 2, and a key that is not stored while a tombstone
\* still holds it with its old value: find of the second returns false and
\* leaves the caller's value
C34_Witness ==
    /\ variant = "OA"
    /\ \E k \in OAKeys : live[k] = 2 /\ find(oa, k, 1) = [ret |-> TRUE, value |-> 2]
    /\ \E k \in OAKeys, i \in SlotsIn(oa, "DELETED") :
          /\ oa.table[i].key = k
          /\ oa.table[i].value = 1
          /\ find(oa, k, 2) = [ret |-> FALSE, value |-> 2]

(***************************************************************************)
(* AVL buckets                                                             *)
(***************************************************************************)
\* every node of bucket i holds a key that hash_function sends to i for the
\* table_size of S
PlacedByHash(S) ==
    \A i \in DOMAIN S.table :
       \A a \in TreeAddrs(S.heap, S.table[i]) :
          hash_function(S.heap[a].key, S.table_size) = i

\* find and remove, which look in bucket hash(K) alone, reach every key that
\* some bucket stores
NoStoredKeyMissed(S) ==
    \A a \in AllAddrs(S) :
       /\ AVLfind(S, S.heap[a].key, NoValue) = [ret |-> TRUE, value |-> S.heap[a].value]
       /\ AVLremove(S, S.heap[a].key).ret

\* C35: in every state the calls lead to, and after every resize and every
\* insert, each node of bucket i of the AVL table holds a key with
\* hash_function(key, table_size) = i for the table_size at hand, and find and
\* remove miss no stored key.
C35_BucketPlacement ==
    /\ PlacedByHash(avl)
    /\ NoStoredKeyMissed(avl)
    /\ AVLLoadExceeded(avl) =>
          /\ PlacedByHash(AVLresize(avl).S)
          /\ NoStoredKeyMissed(AVLresize(avl).S)
          /\ \A k \in AVLKeys, v \in Vals : PlacedByHash(AVLinsert(avl, k, v).S)

\* a table that has grown to four buckets: its keys, which shared bucket 0 or
\* bucket 1 before, are in bucket 3
C35_Witness ==
    /\ avl.table_size = 4
    /\ TreeCount(avl.heap, avl.table[3]) >= 3
    /\ \A i \in 0..2 : avl.table[i] = NULL

(***************************************************************************)
(* Rotations                                                               *)
(***************************************************************************)
RECURSIVE InOrderPairs(_, _)
\* the (key, value) pairs of the tree at node, in order
InOrderPairs(h, node) ==
    IF node = NULL THEN <<>>
    ELSE InOrderPairs(h, h[node].left) \o <<<<h[node].key, h[node].value>>>>
            \o InOrderPairs(h, h[node].right)

\* a call of a rotation: which one, on which node, in which heap
RotationCall(op, h, node) == [op |-> op, h |-> h, node |-> node]

\* the rotations the end of insert_avl calls on node
InsertRotationCalls(h0, node, key) ==
    LET h == update_height(h0, node)
        balance == get_balance(h, node)
    IN  IF balance > 1 /\ key < h[h[node].left].key
        THEN {RotationCall("right", h, node)}
        ELSE IF balance < -1 /\ key > h[h[node].right].key
        THEN {RotationCall("left", h, node)}
        ELSE IF balance > 1 /\ key > h[h[node].left].key
        THEN LET r == rotate_left(h, h[node].left)
             IN  {RotationCall("left", h, h[node].left),
                  RotationCall("right", [r.h EXCEPT ![node].left = r.root], node)}
        ELSE IF balance < -1 /\ key < h[h[node].right].key
        THEN LET r == rotate_right(h, h[node].right)
             IN  {RotationCall("right", h, h[node].right),
                  RotationCall("left", [r.h EXCEPT ![node].right = r.root], node)}
        ELSE {}

\* the rotations the end of remove_avl calls on node
RemoveRotationCalls(h0, node) ==
    IF node = NULL THEN {}
    ELSE
    LET h == update_height(h0, node)
        balance == get_balance(h, node)
    IN  IF balance > 1 /\ get_balance(h, h[node].left) >= 0
        THEN {RotationCall("right", h, node)}
        ELSE IF balance > 1 /\ get_balance(h, h[node].left) < 0
        THEN LET r == rotate_left(h, h[node].left)
             IN  {RotationCall("left", h, h[node].left),
                  RotationCall("right", [r.h EXCEPT ![node].left = r.root], node)}
        ELSE IF balance < -1 /\ get_balance(h, h[node].right) <= 0
        THEN {RotationCall("left", h, node)}
        ELSE IF balance < -1 /\ get_balance(h, h[node].right) > 0
        THEN LET r == rotate_right(h, h[node].right)
             IN  {RotationCall("right", h, h[node].right),
                  RotationCall("left", [r.h EXCEPT ![node].right = r.root], node)}
        ELSE {}

RECURSIVE InsertRotations(_, _, _, _)
\* the rotations insert_avl(node, key, value) calls, at every level
InsertRotations(h, node, key, value) ==
    IF node = NULL THEN {}
    ELSE IF key < h[node].key
    THEN LET r == insert_avl(h, h[node].left, key, value)
         IN  InsertRotations(h, h[node].left, key, value) \cup
                InsertRotationCalls([r.h EXCEPT ![node].left = r.root], node, key)
    ELSE IF key > h[node].key
    THEN LET r == insert_avl(h, h[node].right, key, value)
         IN  InsertRotations(h, h[node].right, key, value) \cup
                InsertRotationCalls([r.h EXCEPT ![node].right = r.root], node, key)
    ELSE {}

RECURSIVE RemoveRotations(_, _, _)
\* the rotations remove_avl(node, key) calls, at every level
RemoveRotations(h, node, key) ==
    IF node = NULL THEN {}
    ELSE IF key < h[node].key
    THEN LET r == remove_avl(h, h[node].left, key)
         IN  RemoveRotations(h, h[node].left, key) \cup
                RemoveRotationCalls([r.h EXCEPT ![node].left = r.root], node)
    ELSE IF key > h[node].key
    THEN LET r == remove_avl(h, h[node].right, key)
         IN  RemoveRotations(h, h[node].right, key) \cup
                RemoveRotationCalls([r.h EXCEPT ![node].right = r.root], node)
    ELSE IF h[node].left = NULL \/ h[node].right = NULL
    THEN LET temp == IF h[node].left # NULL THEN h[node].left ELSE h[node].right
         IN  IF temp = NULL THEN {}
             ELSE RemoveRotationCalls(Delete([h EXCEPT ![node] = h[temp]], temp), node)
    ELSE LET temp == find_min(h, h[node].right)
             h1 == [h EXCEPT ![node].key = h[temp].key, ![node].value = h[temp].value]
             r == remove_avl(h1, h1[node].right, h1[temp].key)
         IN  RemoveRotations(h1, h1[node].right, h1[temp].key) \cup
                RemoveRotationCalls([r.h EXCEPT ![node].right = r.root], node)

\* the rotations that the inserts and removes a caller can make in the state
\* at hand call, and the two rotations on every node of the state at hand
\* that has the child the rotation needs
RotationCalls ==
    (UNION {InsertRotations(avl.heap, avl.table[hash_function(k, avl.table_size)], k, v) :
               k \in AVLKeys, v \in Vals})
    \cup (UNION {RemoveRotations(avl.heap, avl.table[hash_function(k, avl.table_size)], k) :
                    k \in AVLKeys})
    \cup {RotationCall("right", avl.heap, a) : a \in {b \in AllAddrs(avl) : avl.heap[b].left # NULL}}
    \cup {RotationCall("left", avl.heap, a) : a \in {b \in AllAddrs(avl) : avl.heap[b].right # NULL}}

\* the node's height field is 1 + max of its children's, and is the height of
\* its subtree
HeightExactAt(h, a) ==
    /\ h[a].height = 1 + Max(get_height(h, h[a].left), get_height(h, h[a].right))
    /\ h[a].height = TrueHeight(h, a)

\* what the rotation of call c does
RotationCorrect(c) ==
    LET child == IF c.op = "right" THEN c.h[c.node].left ELSE c.h[c.node].right
        r == IF c.op = "right" THEN rotate_right(c.h, c.node) ELSE rotate_left(c.h, c.node)
    IN  /\ child # NULL
        /\ r.root = child
        /\ InOrderPairs(r.h, r.root) = InOrderPairs(c.h, c.node)
        /\ TreeAddrs(r.h, r.root) = TreeAddrs(c.h, c.node)
        /\ HeightExactAt(r.h, c.node)
        /\ HeightExactAt(r.h, child)
        /\ IF c.op = "right" THEN r.h[child].right = c.node ELSE r.h[child].left = c.node
        /\ \A b \in Addrs \ {c.node, child} : r.h[b] = c.h[b]

\* C36: rotate_right on a node with a left child and rotate_left on a node
\* with a right child keep the in-order sequence of (key, value) pairs of the
\* subtree and its set of nodes, return the former child as the root of the
\* subtree, and leave the height fields of the node and of the child exact.
C36_RotationsCorrect == \A c \in RotationCalls : RotationCorrect(c)

\* a removal that rotates twice: the node is left with one subtree two levels
\* higher than the other, and the child on that side leans the other way
C36_Witness ==
    \E k \in AVLKeys :
       LET calls == RemoveRotations(avl.heap, avl.table[hash_function(k, avl.table_size)], k)
       IN  /\ Cardinality(calls) = 2
           /\ \E c \in calls : c.op = "left"
           /\ \E c \in calls : c.op = "right"

====
